---- MODULE Spec2Model ----
(***************************************************************************)
(* Verification model of the space-shooter simulation core:                *)
(*   Pool (js/utils/Pool.js), Bullet, Entity, Player, Enemy, the           *)
(*   EntityManager, the CollisionSystem, the SpawnSystem with the          *)
(*   WavePatterns composer, and the scoring / combo / buff logic of Game.  *)
(*                                                                         *)
(* Conventions                                                             *)
(*   - Instances of the pooled class (Bullet) live in the heap `objs`;     *)
(*     an instance is identified by its index in `objs`, so that the       *)
(*     aliasing between the pool lists and the EntityManager's bullet      *)
(*     list is modelled as it is in the program.                           *)
(*   - Times are integer milliseconds.                                     *)
(*   - Geometry (positions, velocities, AABB tests) is abstracted: which   *)
(*     entities overlap in a frame and which leave the play bounds is an   *)
(*     input of the frame.                                                 *)
(*   - The combo multiplier is held in tenths (10 = 1.0, 50 = 5.0).        *)
(***************************************************************************)
EXTENDS Integers, Sequences, FiniteSets, TLC

(***************************************************************************)
(* Bounds of the model                                                     *)
(***************************************************************************)
MaxInitialSize == 2     \* largest initialSize given to a stand-alone pool
MaxObjs == 3            \* instances constructed in the stand-alone pool runs
MaxGrow == 2            \* largest count given to Pool.grow
MaxFrames == 4          \* frames (calls of Game.update while playing) per run
MaxCombatFrames == 3    \* frames per run of the combat profile
MaxComboFrames == 6     \* frames per run of the combo profile
MaxBullets == 2         \* bullets in flight in the game runs
MaxOverlap == 2         \* overlapping pairs one collision pass is given
MaxPowerUps == 1        \* power-ups on screen
MaxPatternPick == 2     \* movement patterns the advanced composer draws from
MaxWaveNumber == 12     \* last wave composed in the wave runs
MaxCombo == 60          \* largest combo count given to getComboMultiplier
MaxSpawnTicks == 11     \* calls of SpawnSystem.update in the spawn runs
MaxEffects == 1          \* explosions, and floating texts, added by hand
MaxDeathFrames == 4     \* frames of the runs in which the player dies
MaxPatternCalls == 4    \* calls of a movement pattern on one enemy
MaxFlight == 1          \* bullets in the list in the runs that follow their flight
MaxListeners == 1       \* callbacks registered per state and kind of listener
MaxSaves == 12          \* calls of Game.saveHighScore with one score per run
MaxKills == 14          \* enemy-destroyed events in the scoring runs

\* Frame durations (Game.loop passes the time since the previous frame):
\* one second in the game runs, one or two in the combo scenario
FrameTimes == { 1000 }
DeltaTimes == { 1000, 2000 }

(***************************************************************************)
(* Program constants (Config)                                              *)
(***************************************************************************)
BULLET_DAMAGE == 1
BULLET_POOL_SIZE == 50
PLAYER_HEALTH == 3
PLAYER_FIRE_RATE == 200
SCORE_ENEMY_BASE == 100
ENEMY_SPEED_BASE == 100             \* pixels per second
ENEMY_SPEED_INCREMENT == 10         \* per wave, in hundredths of the speed
COMBO_TIMEOUT == 2000
MAX_COMBO_MULTIPLIER == 50          \* 5, in tenths
COMBO_MULTIPLIER_INCREMENT == 1     \* 0.1, in tenths
WAVE_ENEMY_COUNT_BASE == 5
WAVE_ENEMY_COUNT_INCREMENT == 2
WAVE_CLEAR_DELAY == 3000
RAPID_FIRE_DURATION == 10000
SHIELD_DURATION == 15000
INVINCIBLE_DURATION == 2000         \* Player.invincibleDuration
CONTACT_DAMAGE == 999               \* damage dealt to an enemy touching the player

BULLET_SPEED == 500                 \* pixels per second
BULLET_HEIGHT == 16                 \* Config.BULLET_SIZE.height
CANVAS_HEIGHT == 600
PLAYER_START_Y == 500
OFFSCREEN_MARGIN == 50              \* Entity.isOffScreen: margin
ENTITY_HEALTH == 1                   \* Entity's constructor: health
SPAWN_DELAY_INITIAL == 1000         \* SpawnSystem's constructor: spawnDelay

VARIABLES
    objs,        \* heap of Bullet instances: id -> fields
    available,   \* Pool.available (free list), a sequence of ids
    inUse,       \* Pool.inUse, a sequence of ids
    poolOp,      \* record of the last Pool operation (observation only)
    gstate,      \* GameState.current
    pc,          \* position inside Game.update ("idle" between frames)
    fr,          \* locals of the frame in progress: deltaTime, snapshots
    player,      \* EntityManager.player (set = FALSE stands for null)
    enemies,     \* EntityManager.enemies
    bullets,     \* EntityManager.bullets, a sequence of ids into objs
    powerups,    \* EntityManager.powerups
    explosions,  \* EntityManager.explosions
    floatingTexts, \* EntityManager.floatingTexts
    game,        \* Game's session fields: score, wave, lives, combo, buffs
    spawn,       \* SpawnSystem's fields
    storage,     \* localStorage item 'space-shooter-highscores': the JSON
                 \* text, held as the list of its encoded entries
    obs          \* observation of events (does not influence the program)

poolVars == <<objs, available, inUse, poolOp>>
gameVars == <<gstate, pc, fr, player, enemies, bullets, powerups, explosions,
              floatingTexts, game, spawn, storage, obs>>
vars == <<objs, available, inUse, poolOp,
          gstate, pc, fr, player, enemies, bullets, powerups, explosions,
          floatingTexts, game, spawn, storage, obs>>

(***************************************************************************)
(* Generic helpers on sequences                                            *)
(***************************************************************************)
Range(s) == { s[i] : i \in 1..Len(s) }

NoDup(s) == \A i, j \in 1..Len(s) : i # j => s[i] # s[j]

\* Array.prototype.indexOf: first position of x in s, 0 when absent
\* (JavaScript's -1).
IndexOf(s, x) ==
    IF \E i \in 1..Len(s) : s[i] = x
    THEN CHOOSE i \in 1..Len(s) : s[i] = x /\ \A j \in 1..(i-1) : s[j] # x
    ELSE 0

\* Array.prototype.splice(i, 1)
RemoveAt(s, i) == [ k \in 1..(Len(s)-1) |-> IF k < i THEN s[k] ELSE s[k+1] ]

\* Array.prototype.pop: the sequence without its last element
Front(s) == [ k \in 1..(Len(s)-1) |-> s[k] ]

Min(a, b) == IF a <= b THEN a ELSE b
Max(a, b) == IF a >= b THEN a ELSE b

\* F(v) with v evaluated once: the value a statement leaves behind, handed
\* to the statements after it
Then(v, F(_)) == CHOOSE r \in { F(x) : x \in { v } } : TRUE

(***************************************************************************)
(* Bullet                                                                  *)
(***************************************************************************)
\* new Bullet(): Entity's constructor sets active = true, Bullet's sets the
\* owner to the player and the damage to Config.BULLET_DAMAGE.
NewBullet == [ active |-> TRUE, isPlayerBullet |-> TRUE,
               damage |-> BULLET_DAMAGE, y |-> 0, velocityY |-> 0 ]

BulletInitInactive(b, isPlayerBullet, damage) ==
    [ b EXCEPT !.isPlayerBullet = isPlayerBullet, !.damage = damage ]

\* Bullet.init(x, y, vx, vy, isPlayerBullet, damage)
BulletInit(b, isPlayerBullet, damage) ==
    [ b EXCEPT !.isPlayerBullet = isPlayerBullet, !.damage = damage,
               !.active = TRUE ]

\* The position and velocity arguments of Bullet.init (vertical part), for
\* the runs that follow the bullets' flight
BulletInitAt(b, y, velocityY) == [ b EXCEPT !.y = y, !.velocityY = velocityY ]

BulletMoveStill(b, dt) == b

\* Entity.update(deltaTime) of an active bullet: y += velocityY * dt / 1000
BulletMove(b, dt) == [ b EXCEPT !.y = @ + (b.velocityY * dt) \div 1000 ]

\* Entity.isOffScreen(canvasWidth, canvasHeight) of a bullet that is between
\* the left and right bounds
BulletIsOffScreen(b) ==
    \/ b.y + BULLET_HEIGHT < -OFFSCREEN_MARGIN
    \/ b.y > CANVAS_HEIGHT + OFFSCREEN_MARGIN

\* Entity.destroy()
EntityDestroy(e) == [ e EXCEPT !.active = FALSE ]

(***************************************************************************)
(* Pool.  A pool value is the record [available, inUse, objs]; every       *)
(* operation returns the pool after the call.                              *)
(***************************************************************************)
PoolOf(av, iu, os) == [ available |-> av, inUse |-> iu, objs |-> os ]

\* new Pool(ClassType, initialSize)
PoolNew(initialSize) ==
    PoolOf([ i \in 1..initialSize |-> i ], << >>,
           [ i \in 1..initialSize |-> NewBullet ])

PoolGetNoPop(p, isPlayerBullet, damage) ==
    LET reuse == Len(p.available) > 0
        obj   == IF reuse THEN p.available[Len(p.available)]
                 ELSE Len(p.objs) + 1
        os1   == IF reuse THEN p.objs ELSE Append(p.objs, NewBullet)
    IN  [ pool |-> PoolOf(p.available, Append(p.inUse, obj),
                     [ os1 EXCEPT ![obj] = BulletInit(@, isPlayerBullet, damage) ]),
          obj  |-> obj ]

\* Pool.get(...args): the pool after the call and the instance returned
PoolGet(p, isPlayerBullet, damage) ==
    LET reuse == Len(p.available) > 0
        obj   == IF reuse THEN p.available[Len(p.available)]
                 ELSE Len(p.objs) + 1
        av1   == IF reuse THEN Front(p.available) ELSE p.available
        os1   == IF reuse THEN p.objs ELSE Append(p.objs, NewBullet)
    IN  [ pool |-> PoolOf(av1, Append(p.inUse, obj),
                     [ os1 EXCEPT ![obj] = BulletInit(@, isPlayerBullet, damage) ]),
          obj  |-> obj ]

PoolReleaseUnchecked(p, obj) ==
    LET index == IndexOf(p.inUse, obj)
    IN  PoolOf(Append(p.available, obj),
               IF index # 0 THEN RemoveAt(p.inUse, index) ELSE p.inUse,
               [ p.objs EXCEPT ![obj] = EntityDestroy(@) ])

\* Pool.release(obj)
PoolRelease(p, obj) ==
    LET index == IndexOf(p.inUse, obj)
    IN  IF index # 0
        THEN PoolOf(Append(p.available, obj), RemoveAt(p.inUse, index),
                    [ p.objs EXCEPT ![obj].active = FALSE ])
        ELSE p

\* Pool.releaseInactive(): walks inUse from the last index to the first
RECURSIVE ReleaseInactiveFrom(_, _)
ReleaseInactiveFrom(p, i) ==
    IF i = 0 THEN p
    ELSE LET obj == p.inUse[i]
         IN  IF ~p.objs[obj].active
             THEN ReleaseInactiveFrom(
                    PoolOf(Append(p.available, obj), RemoveAt(p.inUse, i), p.objs),
                    i - 1)
             ELSE ReleaseInactiveFrom(p, i - 1)

PoolReleaseInactive(p) == ReleaseInactiveFrom(p, Len(p.inUse))

\* Pool.grow(count)
RECURSIVE PoolGrow(_, _)
PoolGrow(p, count) ==
    IF count <= 0 THEN p
    ELSE PoolGrow(PoolOf(Append(p.available, Len(p.objs) + 1), p.inUse,
                         Append(p.objs, NewBullet)),
                  count - 1)

\* Pool.getTotalSize()
PoolTotalSize(p) == Len(p.available) + Len(p.inUse)

ThePool == PoolOf(available, inUse, objs)

SetPool(p) ==
    \E q \in { p } :
        /\ available' = q.available
        /\ inUse' = q.inUse
        /\ objs' = q.objs

\* No Pool operation observed yet
NoOp == [ op |-> "none", obj |-> 0, tracked |-> FALSE,
          isPlayerBullet |-> TRUE, damage |-> 0 ]

(***************************************************************************)
(* Entity, Player, Enemy                                                   *)
(***************************************************************************)
\* Entity.isAlive()
IsAlive(e) == e.active /\ e.health > 0

\* Entity.takeDamage(amount): onDeath() ends in destroy()
EntityTakeDamage(e, amount) ==
    LET h == e.health - amount
    IN  IF h <= 0 THEN [ e EXCEPT !.health = 0, !.active = FALSE ]
        ELSE [ e EXCEPT !.health = h ]

\* EntityManager.player = null
NoPlayer == [ set |-> FALSE, health |-> 0, active |-> FALSE,
              shield |-> FALSE, shieldTimer |-> 0,
              invincible |-> FALSE, invincibleTimer |-> 0,
              rapidFire |-> FALSE, rapidFireTimer |-> 0,
              weaponLevel |-> 1, fireRate |-> PLAYER_FIRE_RATE,
              bulletDamage |-> BULLET_DAMAGE,
              canShoot |-> TRUE, lastShotTime |-> 0 ]

\* new Player(x, y)
NewPlayer == [ NoPlayer EXCEPT !.set = TRUE, !.health = PLAYER_HEALTH,
                               !.active = TRUE ]

PlayerTakeDamageNoWindow(p, amount) ==
    IF p.shield THEN [ p EXCEPT !.shield = FALSE, !.shieldTimer = 0 ]
    ELSE LET q == EntityTakeDamage(p, amount)
         IN  IF IsAlive(q)
             THEN [ q EXCEPT !.invincible = TRUE,
                             !.invincibleTimer = INVINCIBLE_DURATION ]
             ELSE q

\* Player.takeDamage(amount)
PlayerTakeDamage(p, amount) ==
    IF p.shield THEN [ p EXCEPT !.shield = FALSE, !.shieldTimer = 0 ]
    ELSE IF p.invincible THEN p
    ELSE LET q == EntityTakeDamage(p, amount)
         IN  IF IsAlive(q)
             THEN [ q EXCEPT !.invincible = TRUE,
                             !.invincibleTimer = INVINCIBLE_DURATION ]
             ELSE q

\* Player.applyPowerUp(type) for the shield: the one call that sets the
\* player's own shield flag
PlayerApplyShield(p) ==
    [ p EXCEPT !.shield = TRUE, !.shieldTimer = SHIELD_DURATION ]

\* Player.updatePowerUpTimers(deltaTime)
PlayerUpdatePowerUpTimers(p, dt) ==
    LET q == IF p.shield
             THEN IF p.shieldTimer - dt <= 0
                  THEN [ p EXCEPT !.shield = FALSE, !.shieldTimer = 0 ]
                  ELSE [ p EXCEPT !.shieldTimer = @ - dt ]
             ELSE p
    IN  IF q.rapidFire
        THEN IF q.rapidFireTimer - dt <= 0
             THEN [ q EXCEPT !.rapidFire = FALSE, !.rapidFireTimer = 0 ]
             ELSE [ q EXCEPT !.rapidFireTimer = @ - dt ]
        ELSE q

\* Player.updateInvincibility(deltaTime)
PlayerUpdateInvincibility(p, dt) ==
    IF p.invincible
    THEN IF p.invincibleTimer - dt <= 0
         THEN [ p EXCEPT !.invincible = FALSE, !.invincibleTimer = 0 ]
         ELSE [ p EXCEPT !.invincibleTimer = @ - dt ]
    ELSE p

\* Player.updateShooting(deltaTime)
PlayerUpdateShooting(p, dt) ==
    IF ~p.canShoot
    THEN IF p.lastShotTime + dt >=
              (IF p.rapidFire THEN p.fireRate \div 2 ELSE p.fireRate)
         THEN [ p EXCEPT !.canShoot = TRUE, !.lastShotTime = 0 ]
         ELSE [ p EXCEPT !.lastShotTime = @ + dt ]
    ELSE p

\* Player.onUpdate(deltaTime)
PlayerOnUpdate(p, dt) ==
    PlayerUpdateShooting(
        PlayerUpdateInvincibility(PlayerUpdatePowerUpTimers(p, dt), dt), dt)

\* Player.shoot(): the player after the call; the caller tests canShoot
PlayerShoot(p) == [ p EXCEPT !.canShoot = FALSE, !.lastShotTime = 0 ]

\* Player.getBulletSpawnData(): the number of bullets for the weapon level
\* (1 = single, 2 = double, 3 = triple)
BulletsPerShot(weaponLevel) ==
    CASE weaponLevel = 1 -> 1
      [] weaponLevel = 2 -> 2
      [] weaponLevel = 3 -> 3
      [] OTHER -> 0

EnemyKinds == { "basic", "fast", "tank", "zigzag", "boss" }

\* Enemy.setTypeProperties(type): health by kind.  Config.ENEMY_TYPES has
\* the keys BASIC, FAST, TANK and ZIGZAG; the label Config.ENEMY_TYPES.BOSS
\* is undefined, and "boss" stands for it in the wave descriptors.
TypeHealth(kind) ==
    CASE kind = "basic"  -> 1
      [] kind = "fast"   -> 1
      [] kind = "tank"   -> 3
      [] kind = "zigzag" -> 2
      [] OTHER -> ENTITY_HEALTH

\* new Enemy(x, y, enemyType = 'basic'): the constructor calls
\* setTypeProperties and then assigns this.speed = Config.ENEMY_SPEED_BASE
\* and this.scoreValue = Config.SCORE_ENEMY_BASE.  An undefined type, that of the boss
\* descriptors, takes the parameter's default: the enemy is a Basic one.
NewEnemy(kind, patternName) ==
    [ kind |-> IF kind = "boss" THEN "basic" ELSE kind,
      health |-> TypeHealth(IF kind = "boss" THEN "basic" ELSE kind),
      scoreValue |-> SCORE_ENEMY_BASE, active |-> TRUE,
      speed |-> ENEMY_SPEED_BASE,
      pattern |-> patternName,
      zigzagDirection |-> 0,   \* patternData.zigzagDirection, 0 for undefined
      zigzagTimer |-> 0,       \* patternData.zigzagTimer
      patternCalls |-> 0,      \* calls of movePattern so far (observation)
      patternTime |-> 0,       \* sum of their deltaTime (observation)
      events |-> 0 ]     \* enemy-destroyed events emitted for it (observation)

\* The function EnemyPatterns.zigzag() returns, called with (enemy, deltaTime)
ZIGZAG_SWITCH_TIME == 1000
Zigzag(e, dt) ==
    LET d == IF e.zigzagDirection = 0 THEN 1 ELSE e.zigzagDirection
        t == (IF e.zigzagDirection = 0 THEN 0 ELSE e.zigzagTimer) + dt
    IN  IF t >= ZIGZAG_SWITCH_TIME
        THEN [ e EXCEPT !.zigzagDirection = -d, !.zigzagTimer = 0 ]
        ELSE [ e EXCEPT !.zigzagDirection = d, !.zigzagTimer = t ]

\* new Explosion(x, y, size): the duration set by setSizeProperties(size)
NewExplosion(size) ==
    [ active |-> TRUE,
      duration |-> CASE size = "small" -> 300
                     [] size = "large" -> 700
                     [] OTHER -> 500 ]

\* new FloatingText(x, y, text, color)
NewFloatingText == [ active |-> TRUE, duration |-> 1000 ]

\* Entity.update(deltaTime) of an explosion or a floating text: onUpdate
\* counts the duration down and destroys the entity when it has run out
EffectUpdate(e, dt) ==
    IF ~e.active THEN e
    ELSE [ e EXCEPT !.duration = @ - dt,
                    !.active = ~(e.duration - dt <= 0) ]

\* SpawnSystem.getMovementPattern(patternName)
PatternNames == { "straight", "sineWave", "zigzag", "circular", "diveBomb",
                  "randomJitter" }

GetMovementPatternNoDefault(patternName) == patternName

GetMovementPattern(patternName) ==
    IF patternName \in PatternNames THEN patternName ELSE "straight"

(***************************************************************************)
(* WavePatterns                                                            *)
(***************************************************************************)
Group(type, count, pattern) ==
    [ type |-> type, count |-> count, pattern |-> pattern ]

\* WavePatterns.createWave1 .. createWave5
CreateWave1 ==
    [ enemies |-> << Group("basic", 5, "straight"),
                     Group("boss", 1, "sineWave") >>,
      spawnDelay |-> 1000, formation |-> "line" ]

CreateWave2 ==
    [ enemies |-> << Group("basic", 4, "sineWave"),
                     Group("fast", 3, "straight"),
                     Group("boss", 1, "sineWave") >>,
      spawnDelay |-> 900, formation |-> "scattered" ]

CreateWave3 ==
    [ enemies |-> << Group("basic", 5, "zigzag"),
                     Group("fast", 3, "sineWave"),
                     Group("tank", 1, "straight"),
                     Group("boss", 1, "sineWave") >>,
      spawnDelay |-> 850, formation |-> "mixed" ]

CreateWave4 ==
    [ enemies |-> << Group("basic", 4, "randomJitter"),
                     Group("fast", 4, "zigzag"),
                     Group("zigzag", 3, "zigzag"),
                     Group("tank", 1, "sineWave"),
                     Group("boss", 1, "zigzag") >>,
      spawnDelay |-> 800, formation |-> "mixed" ]

CreateWave5 ==
    [ enemies |-> << Group("basic", 6, "sineWave"),
                     Group("fast", 4, "zigzag"),
                     Group("tank", 3, "straight"),
                     Group("zigzag", 3, "randomJitter"),
                     Group("boss", 1, "sineWave") >>,
      spawnDelay |-> 750, formation |-> "assault" ]

\* Math.floor(totalEnemies * percent), the percentage held in hundredths.
\* For every wave number the model reaches, the integer quotient equals the
\* floor of the double-precision product the program computes.
FloorPercent(total, hundredths) == (total * hundredths) \div 100

AdvancedPatterns == << "straight", "sineWave", "zigzag", "randomJitter" >>

CreateAdvancedWaveNoSlack(waveNumber, totalEnemies, pick) ==
    LET basicPercent  == Max(20, 50 - waveNumber * 3)
        fastPercent   == Min(40, 20 + waveNumber * 2)
        tankPercent   == Min(30, 10 + waveNumber * 2)
        zigzagPercent == 100 - basicPercent - fastPercent - tankPercent
    IN  [ enemies |-> <<
            Group("basic", FloorPercent(totalEnemies, basicPercent),
                  AdvancedPatterns[pick[1]]),
            Group("fast", FloorPercent(totalEnemies, fastPercent),
                  AdvancedPatterns[pick[2]]),
            Group("tank", FloorPercent(totalEnemies, tankPercent),
                  AdvancedPatterns[pick[3]]),
            Group("zigzag", FloorPercent(totalEnemies, zigzagPercent),
                  AdvancedPatterns[pick[4]]),
            Group("boss", 1, AdvancedPatterns[pick[5]]) >>,
          spawnDelay |-> Max(400, 1000 - waveNumber * 50),
          formation |-> "chaos" ]

\* WavePatterns.createAdvancedWave(waveNumber, totalEnemies); pick[k] is the
\* index Math.floor(Math.random() * patterns.length) + 1 drawn for group k.
CreateAdvancedWave(waveNumber, totalEnemies, pick) ==
    LET basicPercent == Max(20, 50 - waveNumber * 3)
        fastPercent  == Min(40, 20 + waveNumber * 2)
        tankPercent  == Min(30, 10 + waveNumber * 2)
        basicCount   == FloorPercent(totalEnemies, basicPercent)
        fastCount    == FloorPercent(totalEnemies, fastPercent)
        tankCount    == FloorPercent(totalEnemies, tankPercent)
        zigzagCount  == totalEnemies - basicCount - fastCount - tankCount
    IN  [ enemies |-> <<
            Group("basic", basicCount, AdvancedPatterns[pick[1]]),
            Group("fast", fastCount, AdvancedPatterns[pick[2]]),
            Group("tank", tankCount, AdvancedPatterns[pick[3]]),
            Group("zigzag", zigzagCount, AdvancedPatterns[pick[4]]),
            Group("boss", 1, AdvancedPatterns[pick[5]]) >>,
          spawnDelay |-> Max(400, 1000 - waveNumber * 50),
          formation |-> "chaos" ]

GetWavePatternFlatDelay(waveNumber, pick) ==
    LET totalEnemies == WAVE_ENEMY_COUNT_BASE
                          + (waveNumber - 1) * WAVE_ENEMY_COUNT_INCREMENT
    IN  CASE waveNumber = 1 -> CreateWave1
          [] waveNumber = 2 -> CreateWave2
          [] waveNumber = 3 -> CreateWave3
          [] waveNumber = 4 -> CreateWave4
          [] waveNumber = 5 -> CreateWave5
          [] OTHER -> [ CreateAdvancedWave(waveNumber, totalEnemies, pick)
                          EXCEPT !.spawnDelay = CreateWave5.spawnDelay ]

\* WavePatterns.getWavePattern(waveNumber)
GetWavePattern(waveNumber, pick) ==
    LET totalEnemies == WAVE_ENEMY_COUNT_BASE
                          + (waveNumber - 1) * WAVE_ENEMY_COUNT_INCREMENT
    IN  CASE waveNumber = 1 -> CreateWave1
          [] waveNumber = 2 -> CreateWave2
          [] waveNumber = 3 -> CreateWave3
          [] waveNumber = 4 -> CreateWave4
          [] waveNumber = 5 -> CreateWave5
          [] OTHER -> CreateAdvancedWave(waveNumber, totalEnemies, pick)

\* The random draws createAdvancedWave makes (none for waves 1..5)
PatternPicks(waveNumber) ==
    IF waveNumber <= 5 THEN { [ k \in 1..5 |-> 1 ] }
    ELSE [ 1..5 -> 1..Min(MaxPatternPick, Len(AdvancedPatterns)) ]

(***************************************************************************)
(* SpawnSystem                                                             *)
(***************************************************************************)
\* new SpawnSystem(entityManager)
NewSpawnSystem ==
    [ currentWave |-> 1, waveState |-> "waiting",
      wavePattern |-> << >>, enemiesToSpawn |-> << >>,
      spawnTimer |-> 0, spawnDelay |-> SPAWN_DELAY_INITIAL,
      waveCompleteTimer |-> 0,
      spawned |-> 0 ]     \* observation: calls of shift() since startWave

\* SpawnSystem.reset()
SpawnReset(sp) ==
    [ sp EXCEPT !.currentWave = 1, !.waveState = "waiting",
                !.wavePattern = << >>, !.enemiesToSpawn = << >>,
                !.spawnTimer = 0, !.waveCompleteTimer = 0,
                !.spawned = 0 ]

\* The descriptors one enemy group contributes to the queue
RECURSIVE Repeat(_, _)
Repeat(x, n) == IF n <= 0 THEN << >> ELSE << x >> \o Repeat(x, n - 1)

RECURSIVE BuildQueue(_, _)
BuildQueue(groups, k) ==
    IF k > Len(groups) THEN << >>
    ELSE Repeat([ type |-> groups[k].type,
                  patternName |-> groups[k].pattern ], groups[k].count)
         \o BuildQueue(groups, k + 1)

\* SpawnSystem.startWave(waveNumber), without the onWaveStart callback.
\* shuffleArray permutes the queue uniformly before the first shift, so the
\* queue is kept in build order and a shift takes any queued position
\* (see SpawnNextEnemy).
SpawnStartWave(sp, waveNumber, pick) ==
    LET pattern == GetWavePattern(waveNumber, pick)
    IN  [ sp EXCEPT !.currentWave = waveNumber, !.waveState = "spawning",
                    !.spawnTimer = 0, !.wavePattern = pattern.enemies,
                    !.spawnDelay = pattern.spawnDelay,
                    !.enemiesToSpawn = BuildQueue(pattern.enemies, 1),
                    !.spawned = 0 ]

\* SpawnSystem.getTotalEnemyCount()
RECURSIVE SumCounts(_, _)
SumCounts(groups, k) ==
    IF k > Len(groups) THEN 0 ELSE groups[k].count + SumCounts(groups, k + 1)

GetTotalEnemyCount(sp) == SumCounts(sp.wavePattern, 1)
(***************************************************************************)
(* Game: scoring, combo, power-ups.  The handlers act on a world record    *)
(*   [player, enemies, objs, powerups, explosions, floatingTexts, game,    *)
(*    obs]                                                                 *)
(* and return the world after the call.                                    *)
(***************************************************************************)
PowerUpTypes == { "triple_shot", "rapid_fire", "shield", "bomb" }

\* Outcomes of the random draws in Game.dropPowerUp: no drop, or a type
DropChoices == { "none" } \cup PowerUpTypes

\* new Game(): score, wave, lives, combo, comboTimer, activeBuffs, buffTimers
NewGame ==
    [ score |-> 0, wave |-> 1, lives |-> PLAYER_HEALTH,
      combo |-> 0, comboTimer |-> 0,
      activeBuffs |-> [ rapidFire |-> FALSE, shield |-> FALSE ],
      buffTimers  |-> [ rapidFire |-> 0, shield |-> 0 ] ]

NoSpawn == [ set |-> FALSE, type |-> "none", patternName |-> "none",
             kind |-> "none", pattern |-> "none", scoreValue |-> 0,
             queued |-> 0, left |-> 0, enemies |-> 0, speed |-> 0,
             wave |-> 0 ]

NoKill == [ set |-> FALSE, kind |-> "none", scoreValue |-> 0,
            comboBefore |-> 0, combo |-> 0, comboTimer |-> 0,
            points |-> 0 ]

NoBomb == [ set |-> FALSE, n |-> 0, sum |-> 0, gained |-> 0,
            activeAfter |-> 0, comboSame |-> TRUE, timerSame |-> TRUE,
            events |-> 0, rolls |-> 0 ]

NoMult == [ set |-> FALSE, combo |-> 0, value |-> 0, prev |-> 0 ]

\* Observation of one EntityManager.update: active enemies before, those of
\* them off screen, enemies after; active bullets off screen, and whether
\* all of these were inactive and out of the bullet list after
NoUpdate == [ set |-> FALSE, enemiesIn |-> 0, enemiesOff |-> 0,
              enemiesOut |-> 0, bulletsOff |-> 0, bulletsGone |-> TRUE ]

\* Observation record: what happened, for the properties below.  The
\* fields of the first group describe the frame in progress and are cleared
\* when the frame ends.
\* new GameState(): the fields other than current (which is gstate).  Game
\* reads none of them.  previous = null is "null"; listeners.enter[s] and
\* listeners.exit[s] are held as the number of callbacks registered for s;
\* last is the latest call of transition() made on its own.
NoTransition == [ set |-> FALSE, from |-> "menu", request |-> "menu",
                  previousBefore |-> "null", result |-> FALSE,
                  calls |-> << >> ]

NewGameState ==
    [ previous |-> "null",
      enter |-> [ s \in { "menu", "playing", "paused", "game_over" } |-> 0 ],
      exit  |-> [ s \in { "menu", "playing", "paused", "game_over" } |-> 0 ],
      last  |-> NoTransition ]

\* Scores handed to Game.saveHighScore
ScoreValues == { 100, 250, 300 }

NewObs ==
    [ events    |-> 0,          \* enemy-destroyed events of this pass
      rolls     |-> 0,          \* calls of Game.dropPowerUp in this pass
      hitOnce   |-> {},         \* enemies overlapped in this frame
      hitTwice  |-> {},         \* enemies overlapped twice or more
      frameHits |-> << >>,      \* enemy-bullet collisions of this frame
      shots |-> << >>,          \* player-bullet damage applied this frame
      contacts |-> << >>,       \* player-enemy contacts of this frame
      pickups |-> << >>,        \* power-ups collected in this frame
      lastSpawn |-> NoSpawn,    \* the enemy spawned by this spawnSystem.update
      lastKill  |-> NoKill,     \* the latest enemy-destroyed event
      lastBomb  |-> NoBomb,     \* the bomb activated in this frame, if any
      killed    |-> FALSE,      \* the session has had a kill
      sinceStart |-> 0,         \* frame time from the start of the latest
                                \* kill's frame to the start of this frame
      sinceKill  |-> 0,         \* frame time from the latest kill's frame
                                \* (excluded) to this frame (included)
      comboAge  |-> 0,          \* frame time from the latest kill's frame
                                \* (included) to the latest frame ended,
                                \* counted up to COMBO_TIMEOUT
      streakLt  |-> 0,          \* see KillStreak
      streakEq  |-> 0,
      mult      |-> NoMult,     \* the latest value of getComboMultiplier
      lastUpdate |-> NoUpdate,  \* the latest EntityManager.update called
                                \* on its own
      machine   |-> NewGameState, \* the GameState object driven on its own
      submitted |-> [ v \in ScoreValues |-> 0 ], \* calls of saveHighScore,
                                \* counted per score
      notes     |-> << >>,      \* wave notifications of the session, in order
      edges     |-> << >> ]     \* changes of SpawnSystem.waveState made by
                                \* the latest handler, in order

GetComboMultiplierNoClamp(combo) == 10 + combo * COMBO_MULTIPLIER_INCREMENT

\* Game.getComboMultiplier(), in tenths
GetComboMultiplier(combo) ==
    Min(10 + combo * COMBO_MULTIPLIER_INCREMENT, MAX_COMBO_MULTIPLIER)

\* The products scoreValue * multiplier whose double-precision value lies
\* just below the integer the decimal product names, for the score value
\* every Enemy carries (SCORE_ENEMY_BASE): 1 + 13 * 0.1, 1 + 31 * 0.1 and
\* 1 + 36 * 0.1 evaluate to doubles below 2.3, 4.1 and 4.6.
RoundedDown == { << 100, 23 >>, << 100, 41 >>, << 100, 46 >> }

\* Math.floor(enemy.scoreValue * multiplier), the multiplier in tenths
FloorProduct(scoreValue, tenths) ==
    LET exact == (scoreValue * tenths) \div 10
    IN  IF << scoreValue, tenths >> \in RoundedDown THEN exact - 1 ELSE exact

\* Game.dropPowerUp(enemy): drops[r] is the outcome of the random draws of
\* the r-th call in the current phase
DropPowerUp(w, drops) ==
    LET r    == w.obs.rolls + 1
        drop == IF r <= Len(drops) THEN drops[r] ELSE "none"
        w1   == [ w EXCEPT !.obs.rolls = r ]
    IN  IF drop = "none" THEN w1
        ELSE [ w1 EXCEPT !.powerups =
                 Append(@, [ ptype |-> drop, active |-> TRUE ]) ]

\* Bookkeeping of the kills of a session: streakLt (streakEq) is k while the
\* first k kills of the session were all Basic enemies of wave 1 and each
\* followed the previous one by less than (exactly) COMBO_TIMEOUT ms, as
\* measured by sinceStart (sinceKill).
KillStreak(o, e, wave) ==
    LET ok == e.kind = "basic" /\ wave = 1
        lt == IF ok /\ (~o.killed \/ (o.streakLt > 0 /\ o.sinceStart < COMBO_TIMEOUT))
              THEN o.streakLt + 1 ELSE 0
        eq == IF ok /\ (~o.killed \/ (o.streakEq > 0 /\ o.sinceKill = COMBO_TIMEOUT))
              THEN o.streakEq + 1 ELSE 0
    IN  [ o EXCEPT !.streakLt = lt, !.streakEq = eq, !.killed = TRUE,
                   !.sinceStart = 0, !.sinceKill = 0, !.comboAge = 0 ]

\* Frame time since the latest kill, kept while a streak is alive and up to
\* just past the combo timeout
Elapsed(o, t, dt) ==
    IF o.streakLt = 0 /\ o.streakEq = 0 THEN 0
    ELSE IF t + dt > COMBO_TIMEOUT THEN COMBO_TIMEOUT + 1 ELSE t + dt

OnEnemyDestroyedNoReset(w, k, drops) ==
    LET e          == w.enemies[k]
        combo      == w.game.combo + 1
        multiplier == GetComboMultiplier(combo)
        points     == FloorProduct(e.scoreValue, multiplier)
        w1 == [ w EXCEPT !.game.combo = combo,
                         !.game.score = @ + points ]
        o1 == KillStreak(w.obs, e, w.game.wave)
        w2 == [ w1 EXCEPT !.enemies[k].events = @ + 1,
                          !.explosions = Append(@, NewExplosion(
                              IF e.kind = "tank" THEN "large" ELSE "medium")),
                          !.floatingTexts = Append(@, NewFloatingText),
                          !.obs =
                 [ o1 EXCEPT !.events = @ + 1,
                             !.lastKill =
                               [ set |-> TRUE, kind |-> e.kind,
                                 scoreValue |-> e.scoreValue,
                                 comboBefore |-> w.game.combo,
                                 combo |-> w1.game.combo,
                                 comboTimer |-> w1.game.comboTimer,
                                 points |-> w1.game.score - w.game.score ] ] ]
    IN  DropPowerUp(w2, drops)

\* Game.onEnemyDestroyed(enemy), for the enemy at position k
OnEnemyDestroyed(w, k, drops) ==
    LET e          == w.enemies[k]
        combo      == w.game.combo + 1
        multiplier == GetComboMultiplier(combo)
        points     == FloorProduct(e.scoreValue, multiplier)
        w1 == [ w EXCEPT !.game.combo = combo,
                         !.game.comboTimer = COMBO_TIMEOUT,
                         !.game.score = @ + points ]
        o1 == KillStreak(w.obs, e, w.game.wave)
        w2 == [ w1 EXCEPT !.enemies[k].events = @ + 1,
                          !.explosions = Append(@, NewExplosion(
                              IF e.kind = "tank" THEN "large" ELSE "medium")),
                          !.floatingTexts = Append(@, NewFloatingText),
                          !.obs =
                 [ o1 EXCEPT !.events = @ + 1,
                             !.lastKill =
                               [ set |-> TRUE, kind |-> e.kind,
                                 scoreValue |-> e.scoreValue,
                                 comboBefore |-> w.game.combo,
                                 combo |-> w1.game.combo,
                                 comboTimer |-> w1.game.comboTimer,
                                 points |-> w1.game.score - w.game.score ] ] ]
    IN  DropPowerUp(w2, drops)

UpdateComboStrict(g, dt) ==
    IF g.combo > 0
    THEN IF g.comboTimer - dt < 0
         THEN [ g EXCEPT !.comboTimer = @ - dt, !.combo = 0 ]
         ELSE [ g EXCEPT !.comboTimer = @ - dt ]
    ELSE g

\* Game.updateCombo(deltaTime)
UpdateCombo(g, dt) ==
    IF g.combo > 0
    THEN IF g.comboTimer - dt <= 0
         THEN [ g EXCEPT !.comboTimer = @ - dt, !.combo = 0 ]
         ELSE [ g EXCEPT !.comboTimer = @ - dt ]
    ELSE g

\* Game.onPlayerHit(player)
OnPlayerHit(w) ==
    IF w.game.activeBuffs.shield THEN w
    ELSE [ w EXCEPT !.game.lives = w.player.health,
                    !.explosions = IF IsAlive(w.player)
                                   THEN Append(@, NewExplosion("small"))
                                   ELSE @ ]

\* Sum of scoreValue over the active enemies of a list
RECURSIVE SumScoreValue(_, _)
SumScoreValue(es, k) ==
    IF k > Len(es) THEN 0
    ELSE (IF es[k].active THEN es[k].scoreValue ELSE 0)
         + SumScoreValue(es, k + 1)

ActiveCount(es) == Cardinality({ k \in 1..Len(es) : es[k].active })

RECURSIVE BombEnemiesWithCombo(_, _)
BombEnemiesWithCombo(w, k) ==
    IF k > Len(w.enemies) THEN w
    ELSE IF ~w.enemies[k].active THEN BombEnemiesWithCombo(w, k + 1)
    ELSE BombEnemiesWithCombo(
           [ w EXCEPT !.game.score = @ + FloorProduct(w.enemies[k].scoreValue,
                                        GetComboMultiplier(w.game.combo + 1)),
                      !.game.combo = @ + 1,
                      !.explosions = Append(@, NewExplosion("large")),
                      !.enemies[k] = EntityDestroy(@) ],
           k + 1)

\* The forEach of Game.activateBomb over entityManager.getEnemies(), the
\* active enemies, from position k
RECURSIVE BombEnemies(_, _)
BombEnemies(w, k) ==
    IF k > Len(w.enemies) THEN w
    ELSE IF ~w.enemies[k].active THEN BombEnemies(w, k + 1)
    ELSE BombEnemies(
           [ w EXCEPT !.game.score = @ + w.enemies[k].scoreValue,
                      !.explosions = Append(@, NewExplosion("large")),
                      !.enemies[k] = EntityDestroy(@) ],
           k + 1)

\* Game.activateBomb()
ActivateBomb(w) ==
    LET w1 == BombEnemies(w, 1)
    IN  [ w1 EXCEPT !.obs.lastBomb =
            [ set |-> TRUE,
              n |-> ActiveCount(w.enemies),
              sum |-> SumScoreValue(w.enemies, 1),
              gained |-> w1.game.score - w.game.score,
              activeAfter |-> ActiveCount(w1.enemies),
              comboSame |-> w1.game.combo = w.game.combo,
              timerSame |-> w1.game.comboTimer = w.game.comboTimer,
              events |-> w1.obs.events - w.obs.events,
              rolls |-> w1.obs.rolls - w.obs.rolls ] ]

\* Game.onPowerUpCollected(powerup, player), for the power-up at position k
OnPowerUpCollectedStacking(w, k) ==
    LET t  == w.powerups[k].ptype
        w1 == CASE t = "triple_shot" ->
                     IF w.player.weaponLevel < 3
                     THEN [ w EXCEPT !.player.weaponLevel = @ + 1 ]
                     ELSE w
                [] t = "rapid_fire" ->
                     [ w EXCEPT !.game.activeBuffs.rapidFire = TRUE,
                                !.game.buffTimers.rapidFire =
                                    Max(@, 0) + RAPID_FIRE_DURATION,
                                !.player.fireRate = PLAYER_FIRE_RATE \div 2 ]
                [] t = "shield" ->
                     [ w EXCEPT !.game.activeBuffs.shield = TRUE,
                                !.game.buffTimers.shield =
                                    Max(@, 0) + SHIELD_DURATION ]
                [] t = "bomb" -> ActivateBomb(w)
                [] OTHER -> w
    IN  [ w1 EXCEPT !.floatingTexts = Append(@, NewFloatingText) ]

OnPowerUpCollected(w, k) ==
    LET t  == w.powerups[k].ptype
        w1 == CASE t = "triple_shot" ->
                     IF w.player.weaponLevel < 3
                     THEN [ w EXCEPT !.player.weaponLevel = @ + 1 ]
                     ELSE w
                [] t = "rapid_fire" ->
                     [ w EXCEPT !.game.activeBuffs.rapidFire = TRUE,
                                !.game.buffTimers.rapidFire = RAPID_FIRE_DURATION,
                                !.player.fireRate = PLAYER_FIRE_RATE \div 2 ]
                [] t = "shield" ->
                     [ w EXCEPT !.game.activeBuffs.shield = TRUE,
                                !.game.buffTimers.shield = SHIELD_DURATION ]
                [] t = "bomb" -> ActivateBomb(w)
                [] OTHER -> w
    IN  [ w1 EXCEPT !.floatingTexts = Append(@, NewFloatingText) ]

UpdateBuffsKeepRate(w, dt) ==
    IF ~w.player.set THEN w
    ELSE
      LET w1 == IF w.game.activeBuffs.rapidFire
                THEN IF w.game.buffTimers.rapidFire - dt <= 0
                     THEN [ w EXCEPT !.game.buffTimers.rapidFire = @ - dt,
                                     !.game.activeBuffs.rapidFire = FALSE ]
                     ELSE [ w EXCEPT !.game.buffTimers.rapidFire = @ - dt ]
                ELSE w
      IN  IF w1.game.activeBuffs.shield
          THEN IF w1.game.buffTimers.shield - dt <= 0
               THEN [ w1 EXCEPT !.game.buffTimers.shield = @ - dt,
                                !.game.activeBuffs.shield = FALSE ]
               ELSE [ w1 EXCEPT !.game.buffTimers.shield = @ - dt ]
          ELSE w1

\* Game.updateBuffs(deltaTime)
UpdateBuffs(w, dt) ==
    IF ~w.player.set THEN w
    ELSE
      LET w1 == IF w.game.activeBuffs.rapidFire
                THEN IF w.game.buffTimers.rapidFire - dt <= 0
                     THEN [ w EXCEPT !.game.buffTimers.rapidFire = @ - dt,
                                     !.game.activeBuffs.rapidFire = FALSE,
                                     !.player.fireRate = PLAYER_FIRE_RATE ]
                     ELSE [ w EXCEPT !.game.buffTimers.rapidFire = @ - dt ]
                ELSE w
      IN  IF w1.game.activeBuffs.shield
          THEN IF w1.game.buffTimers.shield - dt <= 0
               THEN [ w1 EXCEPT !.game.buffTimers.shield = @ - dt,
                                !.game.activeBuffs.shield = FALSE ]
               ELSE [ w1 EXCEPT !.game.buffTimers.shield = @ - dt ]
          ELSE w1

\* Game.onWaveStart(waveNumber), the wave-start notification
OnWaveStart(w, waveNumber) ==
    [ w EXCEPT !.game.wave = waveNumber,
               !.obs.notes = Append(@, << "start", waveNumber >>) ]

\* Game.onWaveComplete(waveNumber), the wave-complete notification
OnWaveComplete(w, waveNumber) ==
    [ w EXCEPT !.obs.notes = Append(@, << "complete", waveNumber >>) ]


\* ---- High scores (Game.loadHighScores, Game.saveHighScore) ----

HIGH_SCORE_COUNT == 10

\* JSON.stringify and JSON.parse of a non-negative integer: its decimal
\* digits, most significant first
RECURSIVE NumberToJSON(_)
NumberToJSON(n) ==
    IF n < 10 THEN << n >> ELSE Append(NumberToJSON(n \div 10), n % 10)

RECURSIVE NumberFromJSON(_)
NumberFromJSON(d) ==
    IF Len(d) = 0 THEN 0
    ELSE 10 * NumberFromJSON(SubSeq(d, 1, Len(d) - 1)) + d[Len(d)]

\* JSON.stringify(topScores) and JSON.parse(saved), entry by entry
Stringify(list) ==
    [ k \in 1..Len(list) |->
        [ name |-> list[k].name, score |-> NumberToJSON(list[k].score) ] ]

Parse(text) ==
    [ k \in 1..Len(text) |->
        [ name |-> text[k].name, score |-> NumberFromJSON(text[k].score) ] ]

\* loadHighScores(): the parsed item, [] when the item is absent
LoadHighScores(item) == Parse(item)

\* highScores.sort((a, b) => b.score - a.score): Array.prototype.sort is
\* stable, so entries of equal score keep their order
RECURSIVE SortByScore(_)
SortByScore(list) ==
    IF Len(list) = 0 THEN << >>
    ELSE LET e == list[Len(list)]
             front == SortByScore(SubSeq(list, 1, Len(list) - 1))
             ahead == Cardinality({ k \in 1..Len(front) :
                                      front[k].score >= e.score })
         IN  SubSeq(front, 1, ahead) \o << e >>
             \o SubSeq(front, ahead + 1, Len(front))

\* highScores.slice(0, 10)
Slice(list, n) == SubSeq(list, 1, Min(n, Len(list)))

SaveHighScoreNoSort(item, name, score) ==
    Stringify(Slice(Append(LoadHighScores(item),
                           [ name |-> name, score |-> score ]),
                    HIGH_SCORE_COUNT))

\* saveHighScore(name, score): the item written to localStorage (without the
\* entry's date, which is stored and never compared)
SaveHighScore(item, name, score) ==
    Stringify(Slice(SortByScore(Append(LoadHighScores(item),
                                       [ name |-> name, score |-> score ])),
                    HIGH_SCORE_COUNT))
(***************************************************************************)
(* CollisionSystem.  Which pairs overlap in the frame is an input:         *)
(*   hit     pairs <<bullet id, enemy position>> for which isColliding     *)
(*   hitP    ids of the enemy bullets overlapping the player               *)
(*   touch   positions of the enemies overlapping the player               *)
(*   collect positions of the power-ups overlapping the player             *)
(***************************************************************************)
\* The body of the inner forEach of checkBulletEnemyCollisions when the
\* pair collides
BulletEnemyHit(w, b, k, drops) ==
    LET e1 == EntityTakeDamage(w.enemies[k], w.objs[b].damage)
        w1 == [ w EXCEPT !.enemies[k] = e1, !.objs[b] = EntityDestroy(@),
                         !.obs.shots = Append(@,
                            [ bullet |-> b, enemy |-> k,
                              bulletActive |-> w.objs[b].active,
                              enemyActive |-> w.enemies[k].active ]) ]
    IN  IF ~IsAlive(e1) THEN OnEnemyDestroyed(w1, k, drops) ELSE w1

RECURSIVE BulletVsEnemiesNoActiveCheck(_, _, _, _, _)
BulletVsEnemiesNoActiveCheck(w, b, k, hit, drops) ==
    IF k > Len(w.enemies) THEN w
    ELSE IF << b, k >> \in hit
         THEN Then(BulletEnemyHit(w, b, k, drops),
                   LAMBDA v : BulletVsEnemiesNoActiveCheck(v, b, k + 1, hit,
                                                           drops))
         ELSE BulletVsEnemiesNoActiveCheck(w, b, k + 1, hit, drops)

\* The inner forEach of checkBulletEnemyCollisions, from enemy position k
RECURSIVE BulletVsEnemies(_, _, _, _, _)
BulletVsEnemies(w, b, k, hit, drops) ==
    IF k > Len(w.enemies) THEN w
    ELSE IF w.enemies[k].active /\ << b, k >> \in hit
         THEN Then(BulletEnemyHit(w, b, k, drops),
                   LAMBDA v : BulletVsEnemies(v, b, k + 1, hit, drops))
         ELSE BulletVsEnemies(w, b, k + 1, hit, drops)

\* CollisionSystem.checkBulletEnemyCollisions(bullets, enemies), from
\* position i of the snapshot bs of player bullets
RECURSIVE CheckBulletEnemyCollisions(_, _, _, _, _)
CheckBulletEnemyCollisions(w, bs, i, hit, drops) ==
    IF i > Len(bs) THEN w
    ELSE IF ~w.objs[bs[i]].active
         THEN CheckBulletEnemyCollisions(w, bs, i + 1, hit, drops)
         ELSE Then(BulletVsEnemies(w, bs[i], 1, hit, drops),
                   LAMBDA v : CheckBulletEnemyCollisions(v, bs, i + 1, hit,
                                                         drops))

\* The body of the forEach of checkBulletPlayerCollisions when the bullet
\* collides with the player
BulletPlayerHit(w, b) ==
    LET w1 == [ w EXCEPT !.player = PlayerTakeDamage(@, w.objs[b].damage),
                         !.objs[b] = EntityDestroy(@) ]
        w2 == OnPlayerHit(w1)
    IN  [ w2 EXCEPT !.obs.frameHits = Append(@,
            [ shieldBefore |-> w.game.activeBuffs.shield,
              shieldAfter  |-> w2.game.activeBuffs.shield \/ w2.player.shield,
              shieldSame   |-> /\ w2.game.activeBuffs = w.game.activeBuffs
                               /\ w2.game.buffTimers = w.game.buffTimers
                               /\ w2.player.shield = w.player.shield
                               /\ w2.player.shieldTimer = w.player.shieldTimer,
              invincibleBefore |-> w.player.invincible,
              healthBefore |-> w.player.health,
              healthAfter  |-> w2.player.health,
              damage       |-> w.objs[b].damage,
              bulletActive |-> w2.objs[b].active ]) ]

\* CollisionSystem.checkBulletPlayerCollisions(bullets, player), from
\* position i of the snapshot bs of enemy bullets
RECURSIVE BulletsVsPlayer(_, _, _, _)
BulletsVsPlayer(w, bs, i, hitP) ==
    IF i > Len(bs) THEN w
    ELSE IF w.objs[bs[i]].active /\ bs[i] \in hitP
         THEN Then(BulletPlayerHit(w, bs[i]),
                   LAMBDA v : BulletsVsPlayer(v, bs, i + 1, hitP))
         ELSE BulletsVsPlayer(w, bs, i + 1, hitP)

CheckBulletPlayerCollisions(w, bs, hitP) ==
    IF ~w.player.set \/ ~IsAlive(w.player) THEN w
    ELSE BulletsVsPlayer(w, bs, 1, hitP)

\* Observation of one player-enemy contact: the world before and after
ContactOf(w, w3, k) ==
    [ enemyHealth |-> w.enemies[k].health,
      destroyed |-> ~w3.enemies[k].active /\ w3.enemies[k].health = 0,
      events |-> w3.enemies[k].events - w.enemies[k].events,
      invincibleBefore |-> w.player.invincible,
      healthBefore |-> w.player.health,
      healthAfter |-> w3.player.health ]

PlayerEnemyHitBulletDamage(w, k, drops) ==
    LET e1 == EntityTakeDamage(w.enemies[k], BULLET_DAMAGE)
        w1 == [ w EXCEPT !.enemies[k] = e1,
                         !.player = PlayerTakeDamage(@, 1) ]
        w2 == IF ~IsAlive(e1) THEN OnEnemyDestroyed(w1, k, drops) ELSE w1
        w3 == OnPlayerHit(w2)
    IN  [ w3 EXCEPT !.obs.contacts = Append(@, ContactOf(w, w3, k)) ]

\* The body of the forEach of checkPlayerEnemyCollisions when the enemy
\* collides with the player
PlayerEnemyHit(w, k, drops) ==
    LET e1 == EntityTakeDamage(w.enemies[k], CONTACT_DAMAGE)
        w1 == [ w EXCEPT !.enemies[k] = e1,
                         !.player = PlayerTakeDamage(@, 1) ]
        w2 == IF ~IsAlive(e1) THEN OnEnemyDestroyed(w1, k, drops) ELSE w1
        w3 == OnPlayerHit(w2)
    IN  [ w3 EXCEPT !.obs.contacts = Append(@, ContactOf(w, w3, k)) ]

RECURSIVE PlayerVsEnemies(_, _, _, _)
PlayerVsEnemies(w, k, touch, drops) ==
    IF k > Len(w.enemies) THEN w
    ELSE IF w.enemies[k].active /\ k \in touch
         THEN Then(PlayerEnemyHit(w, k, drops),
                   LAMBDA v : PlayerVsEnemies(v, k + 1, touch, drops))
         ELSE PlayerVsEnemies(w, k + 1, touch, drops)

\* CollisionSystem.checkPlayerEnemyCollisions(player, enemies)
CheckPlayerEnemyCollisions(w, touch, drops) ==
    IF ~w.player.set \/ ~IsAlive(w.player) THEN w
    ELSE PlayerVsEnemies(w, 1, touch, drops)

\* What the collection of power-up k did: w before, w1 after
\* onPowerUpCollected
PickupOf(w, w1, k) ==
    [ ptype        |-> w.powerups[k].ptype,
      levelBefore  |-> w.player.weaponLevel,
      levelAfter   |-> w1.player.weaponLevel,
      buffsBefore  |-> w.game.activeBuffs,
      timersBefore |-> w.game.buffTimers,
      buffsAfter   |-> w1.game.activeBuffs,
      timersAfter  |-> w1.game.buffTimers ]

\* The body of the forEach of checkPlayerPowerupCollisions for power-up k,
\* which overlaps the player
PlayerPowerupHit(w, k) ==
    Then(OnPowerUpCollected(w, k), LAMBDA w1 :
         [ w1 EXCEPT !.powerups[k] = EntityDestroy(@),
                     !.obs.pickups = Append(@, PickupOf(w, w1, k)) ])

\* The forEach of checkPlayerPowerupCollisions over the snapshot, the first
\* n power-ups, from position k
RECURSIVE PlayerVsPowerups(_, _, _, _)
PlayerVsPowerups(w, k, n, collect) ==
    IF k > n THEN w
    ELSE IF w.powerups[k].active /\ k \in collect
         THEN Then(PlayerPowerupHit(w, k), LAMBDA w1 :
                   PlayerVsPowerups(w1, k + 1, n, collect))
         ELSE PlayerVsPowerups(w, k + 1, n, collect)

\* CollisionSystem.checkPlayerPowerupCollisions(player, powerups)
CheckPlayerPowerupCollisions(w, n, collect) ==
    IF ~w.player.set \/ ~IsAlive(w.player) THEN w
    ELSE PlayerVsPowerups(w, 1, n, collect)

(***************************************************************************)
(* EntityManager                                                           *)
(***************************************************************************)
\* Array.prototype.filter
RECURSIVE SelectSeq2(_, _, _)
SelectSeq2(s, k, keep) ==
    IF k > Len(s) THEN << >>
    ELSE (IF keep[k] THEN << s[k] >> ELSE << >>) \o SelectSeq2(s, k + 1, keep)

ActiveOnly(s) == SelectSeq2(s, 1, [ k \in 1..Len(s) |-> s[k].active ])

\* EntityManager.getPlayerBullets() / getEnemyBullets(): ids in list order
BulletsOf(os, bl, isPlayerBullet) ==
    SelectSeq2(bl, 1, [ k \in 1..Len(bl) |->
        os[bl[k]].active /\ os[bl[k]].isPlayerBullet = isPlayerBullet ])

\* EntityManager.addBullet(..., isPlayerBullet, damage), count times: the
\* pool and the bullet list after the calls
RECURSIVE AddBullets(_, _, _, _, _)
AddBullets(p, bl, count, isPlayerBullet, damage) ==
    IF count <= 0 THEN [ pool |-> p, bullets |-> bl ]
    ELSE LET r == PoolGet(p, isPlayerBullet, damage)
         IN  AddBullets(r.pool, Append(bl, r.obj), count - 1,
                        isPlayerBullet, damage)

RECURSIVE CleanupBulletsNoRelease(_, _, _)
CleanupBulletsNoRelease(p, bl, i) ==
    IF i = 0 THEN [ pool |-> p, bullets |-> bl ]
    ELSE IF ~p.objs[bl[i]].active
         THEN CleanupBulletsNoRelease(p, RemoveAt(bl, i), i - 1)
         ELSE CleanupBulletsNoRelease(p, bl, i - 1)

\* The bullet part of EntityManager.cleanup(): the loop runs from the last
\* index to the first, releasing the inactive bullets to the pool
RECURSIVE CleanupBullets(_, _, _)
CleanupBullets(p, bl, i) ==
    IF i = 0 THEN [ pool |-> p, bullets |-> bl ]
    ELSE IF ~p.objs[bl[i]].active
         THEN Then(PoolRelease(p, bl[i]),
                   LAMBDA q : CleanupBullets(q, RemoveAt(bl, i), i - 1))
         ELSE CleanupBullets(p, bl, i - 1)

\* EntityManager.clearBullets()
RECURSIVE ReleaseAll(_, _, _)
ReleaseAll(p, bl, i) ==
    IF i > Len(bl) THEN p
    ELSE Then(PoolRelease(p, bl[i]), LAMBDA q : ReleaseAll(q, bl, i + 1))

\* EntityManager.updateEntities for bullets: an active bullet that has left
\* the screen (its id is in off) is destroyed
UpdateBullets(os, bl, off) ==
    [ b \in DOMAIN os |->
        IF b \in Range(bl) /\ os[b].active /\ b \in off
        THEN EntityDestroy(os[b]) ELSE os[b] ]

UpdateEntitiesAnyType(type, es, off) ==
    [ k \in 1..Len(es) |->
        IF es[k].active /\ k \in off THEN EntityDestroy(es[k]) ELSE es[k] ]

\* EntityManager.updateEntities(entities, ...) for a list of entities of one
\* type; off holds the positions in the list of the entities for which
\* isOffScreen is true after their update
UpdateEntities(type, es, off) ==
    [ k \in 1..Len(es) |->
        IF es[k].active /\ type # "enemy" /\ k \in off
        THEN EntityDestroy(es[k]) ELSE es[k] ]

\* EntityManager.updateEntities for power-ups
UpdatePowerUps(ps, off) == UpdateEntities("powerup", ps, off)

\* EntityManager.update(deltaTime, ...): the player, the lists and the pool
\* after the updates and the cleanup; offE, offB and offP are the positions
\* of the enemies, bullets and power-ups that are off screen after moving
\* (explosions and floating texts stay on screen)
EntityManagerUpdate(p, es, pool, bl, ps, xs, ts, dt, offE, offB, offP) ==
    LET p2  == IF p.set /\ IsAlive(p) THEN PlayerOnUpdate(p, dt) ELSE p
        es2 == UpdateEntities("enemy", es, offE)
        os2 == UpdateBullets(pool.objs, bl,
                             { bl[k] : k \in offB \cap 1..Len(bl) })
        ps2 == UpdatePowerUps(ps, offP)
        xs2 == [ k \in 1..Len(xs) |-> EffectUpdate(xs[k], dt) ]
        ts2 == [ k \in 1..Len(ts) |-> EffectUpdate(ts[k], dt) ]
        r3  == CleanupBullets([ pool EXCEPT !.objs = os2 ], bl, Len(bl))
    IN  [ player |-> p2, enemies |-> ActiveOnly(es2), pool |-> r3.pool,
          bullets |-> r3.bullets, powerups |-> ActiveOnly(ps2),
          explosions |-> ActiveOnly(xs2), floatingTexts |-> ActiveOnly(ts2) ]

(***************************************************************************)
(* SpawnSystem.update                                                      *)
(***************************************************************************)
\* Positions of the queue that hold the first occurrence of a descriptor
FirstOccurrences(q) ==
    { i \in 1..Len(q) : \A j \in 1..(i - 1) : q[j] # q[i] }

\* enemy.speed *= 1 + (currentWave - 1) * (ENEMY_SPEED_INCREMENT / 100):
\* the product, exact for the speeds of the program (multiples of 10)
SpeedTimes(speed, wave) ==
    (speed * (100 + (wave - 1) * ENEMY_SPEED_INCREMENT)) \div 100

\* SpawnSystem.spawnNextEnemy(): c is the position, in build order, of the
\* descriptor the shuffled queue has at its head.  For a boss descriptor
\* enemyData.type === Config.ENEMY_TYPES.BOSS holds (both undefined) and
\* setBossWave is called, which does nothing to an enemy whose enemyType
\* is 'basic'.
SpawnNextEnemy(w, sp, c) ==
    IF Len(sp.enemiesToSpawn) = 0 THEN [ world |-> w, spawn |-> sp ]
    ELSE LET d == sp.enemiesToSpawn[c]
             n == NewEnemy(d.type, GetMovementPattern(d.patternName))
             e == [ n EXCEPT !.speed = SpeedTimes(@, sp.currentWave) ]
             q == RemoveAt(sp.enemiesToSpawn, c)
         IN  [ world |-> [ w EXCEPT
                   !.enemies = Append(@, e),
                   !.obs.lastSpawn =
                       [ set |-> TRUE, type |-> d.type,
                         patternName |-> d.patternName,
                         kind |-> e.kind, pattern |-> e.pattern,
                         scoreValue |-> e.scoreValue,
                         queued |-> Len(sp.enemiesToSpawn), left |-> Len(q),
                         enemies |-> Len(w.enemies) + 1,
                         speed |-> e.speed, wave |-> sp.currentWave ] ],
               spawn |-> [ sp EXCEPT !.enemiesToSpawn = q,
                                     !.spawned = @ + 1 ] ]

UpdateSpawningNoDelay(w, sp, dt, c) ==
    LET sp1 == [ sp EXCEPT !.spawnTimer = @ + dt ]
    IN  IF Len(sp1.enemiesToSpawn) > 0
        THEN LET r == SpawnNextEnemy(w, sp1, c)
             IN  [ world |-> r.world,
                   spawn |-> [ r.spawn EXCEPT
                       !.spawnTimer = 0,
                       !.waveState = IF Len(r.spawn.enemiesToSpawn) = 0
                                     THEN "active" ELSE @ ] ]
        ELSE [ world |-> w, spawn |-> sp1 ]

\* SpawnSystem.updateSpawning(deltaTime)
UpdateSpawning(w, sp, dt, c) ==
    LET sp1 == [ sp EXCEPT !.spawnTimer = @ + dt ]
    IN  IF sp1.spawnTimer >= sp1.spawnDelay /\ Len(sp1.enemiesToSpawn) > 0
        THEN LET r == SpawnNextEnemy(w, sp1, c)
             IN  [ world |-> r.world,
                   spawn |-> [ r.spawn EXCEPT
                       !.spawnTimer = 0,
                       !.waveState = IF Len(r.spawn.enemiesToSpawn) = 0
                                     THEN "active" ELSE @ ] ]
        ELSE [ world |-> w, spawn |-> sp1 ]

\* SpawnSystem.checkWaveComplete()
CheckWaveCompleteAnyCount(w, sp) ==
    [ world |-> OnWaveComplete(w, sp.currentWave),
      spawn |-> [ sp EXCEPT !.waveState = "complete",
                            !.waveCompleteTimer = 0 ] ]

CheckWaveComplete(w, sp) ==
    IF ActiveCount(w.enemies) = 0
    THEN [ world |-> OnWaveComplete(w, sp.currentWave),
           spawn |-> [ sp EXCEPT !.waveState = "complete",
                                 !.waveCompleteTimer = 0 ] ]
    ELSE [ world |-> w, spawn |-> sp ]

StartNextWaveSilent(w, sp, pick) ==
    [ world |-> w,
      spawn |-> SpawnStartWave([ sp EXCEPT !.currentWave = @ + 1 ],
                               sp.currentWave + 1, pick) ]

\* SpawnSystem.startNextWave(), with the onWaveStart callback of startWave
StartNextWave(w, sp, pick) ==
    [ world |-> OnWaveStart(w, sp.currentWave + 1),
      spawn |-> SpawnStartWave([ sp EXCEPT !.currentWave = @ + 1 ],
                               sp.currentWave + 1, pick) ]

\* SpawnSystem.updateWaveComplete(deltaTime)
UpdateWaveComplete(w, sp, dt, pick) ==
    LET sp1 == [ sp EXCEPT !.waveCompleteTimer = @ + dt ]
    IN  IF sp1.waveCompleteTimer >= WAVE_CLEAR_DELAY
        THEN StartNextWave(w, sp1, pick)
        ELSE [ world |-> w, spawn |-> sp1 ]

SpawnUpdateEagerComplete(w, sp, dt, c, pick) ==
    CASE sp.waveState = "spawning" ->
             IF ActiveCount(w.enemies) = 0 THEN CheckWaveComplete(w, sp)
             ELSE UpdateSpawning(w, sp, dt, c)
      [] sp.waveState = "active" -> CheckWaveComplete(w, sp)
      [] sp.waveState = "complete" -> UpdateWaveComplete(w, sp, dt, pick)
      [] OTHER -> [ world |-> w, spawn |-> sp ]

\* SpawnSystem.update(deltaTime)
SpawnUpdate(w, sp, dt, c, pick) ==
    CASE sp.waveState = "spawning" -> UpdateSpawning(w, sp, dt, c)
      [] sp.waveState = "active" -> CheckWaveComplete(w, sp)
      [] sp.waveState = "complete" -> UpdateWaveComplete(w, sp, dt, pick)
      [] OTHER -> [ world |-> w, spawn |-> sp ]

\* The changes of waveState one call of SpawnSystem.update makes
EdgesOf(sp, sp1) ==
    IF sp1.waveState # sp.waveState \/ sp1.currentWave # sp.currentWave
    THEN << << sp.waveState, sp1.waveState >> >> ELSE << >>

(***************************************************************************)
(* Game: construction, session start, the frame                            *)
(***************************************************************************)
World == [ player |-> player, enemies |-> enemies, objs |-> objs,
           powerups |-> powerups, explosions |-> explosions,
           floatingTexts |-> floatingTexts, game |-> game, obs |-> obs ]

SetWorld(w) ==
    \E v \in { w } :
        /\ player' = v.player
        /\ enemies' = v.enemies
        /\ objs' = v.objs
        /\ powerups' = v.powerups
        /\ explosions' = v.explosions
        /\ floatingTexts' = v.floatingTexts
        /\ game' = v.game
        /\ obs' = v.obs

\* The inputs of a run are drawn from one of these profiles; they bound the
\* exploration, the program is the same under all of them.
\*   frames  calls of Game.update while playing
\*   dts     frame durations
\*   leave   bullets and power-ups may leave the screen
\*   pairs   overlapping bullet/enemy pairs per frame, at most
\*   touch   enemies overlapping the player per frame, at most
\*   drops   outcomes of a drop draw, besides no drop
\*   fire    enemies fire
\*   bullets bullets in the list when the player has fired, at most (the
\*           bullet spent in the frame before is still in it)
Profile(name, frames, dts, leave, pairs, touch, drops, fire, inFlight) ==
    [ name |-> name, frames |-> frames, dts |-> dts, leave |-> leave,
      pairs |-> pairs, touch |-> touch, drops |-> drops, fire |-> fire,
      bullets |-> inFlight ]

Combat == Profile("combat", MaxCombatFrames, FrameTimes, TRUE,
                  MaxOverlap, MaxOverlap, {}, FALSE, MaxBullets)

Profiles ==
    { Combat,
      Profile("bomb", MaxFrames, FrameTimes, FALSE, 1, 0, { "bomb" }, FALSE,
              MaxBullets),
      Profile("combo", MaxComboFrames, DeltaTimes, FALSE, 1, 0, {}, FALSE,
              2) }

PowerUpProfiles ==
    { Profile("shield", MaxFrames, FrameTimes, FALSE,
              1, 0, { "shield" }, TRUE, MaxBullets),
      Profile("weapon", MaxFrames, FrameTimes, TRUE,
              1, 0, { "triple_shot", "rapid_fire" }, FALSE, MaxBullets) }

\* The frame in progress: the run's input profile; n frames so far;
\* deltaTime; the number of power-ups when checkCollisions began
NewFrame(profile) ==
    [ profile |-> profile, n |-> 0, dt |-> 0, nPowerups |-> 0 ]

\* new Game(): the state, the entity lists, the session fields and the
\* spawn system after construction
GameCtor(profile) ==
    /\ gstate = "menu"
    /\ pc = "idle"
    /\ fr = NewFrame(profile)
    /\ player = NoPlayer
    /\ enemies = << >>
    /\ bullets = << >>
    /\ powerups = << >>
    /\ game = NewGame
    /\ spawn = NewSpawnSystem
    /\ storage = << >>
    /\ obs = NewObs

\* new EntityManager(): bulletPool = new Pool(Bullet, BULLET_POOL_SIZE)
EntityManagerCtor ==
    /\ objs = PoolNew(BULLET_POOL_SIZE).objs
    /\ available = PoolNew(BULLET_POOL_SIZE).available
    /\ inUse = PoolNew(BULLET_POOL_SIZE).inUse
    /\ poolOp = NoOp
    /\ explosions = << >>
    /\ floatingTexts = << >>

Init ==
    /\ EntityManagerCtor
    /\ \E profile \in Profiles : GameCtor(profile)

CanTransitionNoGameOver(from, to) ==
    CASE from = "menu"      -> to \in { "playing" }
      [] from = "playing"   -> to \in { "paused" }
      [] from = "paused"    -> to \in { "playing", "menu" }
      [] from = "game_over" -> to \in { "menu", "playing" }
      [] OTHER -> FALSE

\* GameState.canTransition(newState)
CanTransition(from, to) ==
    CASE from = "menu"      -> to \in { "playing" }
      [] from = "playing"   -> to \in { "paused", "game_over" }
      [] from = "paused"    -> to \in { "playing", "menu" }
      [] from = "game_over" -> to \in { "menu", "playing" }
      [] OTHER -> FALSE

\* Game.initializeGameSession(), run on entering the playing state
InitializeGameSession ==
    /\ SetPool(ReleaseAll(ThePool, bullets, 1))
    /\ bullets' = << >>
    /\ enemies' = << >>
    /\ powerups' = << >>
    /\ explosions' = << >>
    /\ UNCHANGED floatingTexts
    /\ player' = NewPlayer
    /\ game' = NewGame
    /\ spawn' = SpawnStartWave(SpawnReset(spawn), 1, [ k \in 1..5 |-> 1 ])
    /\ obs' = [ NewObs EXCEPT
                  !.notes = << << "start", 1 >> >>,
                  !.edges = << << spawn.waveState, "waiting" >>,
                               << "waiting", "spawning" >> >> ]

\* Game.startGame(): the start and restart buttons
StartGame ==
    /\ pc = "idle"
    /\ CanTransition(gstate, "playing")
    /\ gstate' = "playing"
    /\ InitializeGameSession
    /\ UNCHANGED << storage, poolOp, pc, fr >>

\* Game.togglePause(): pauseGame() when playing, resumeGame() when paused;
\* entering the playing state runs initializeGameSession
TogglePause ==
    /\ pc = "idle"
    /\ \/ /\ gstate = "playing"
          /\ gstate' = "paused"
          /\ UNCHANGED << storage, objs, available, inUse, player, enemies, bullets,
                          powerups, explosions, floatingTexts, game, spawn,
                          obs >>
       \/ /\ gstate = "paused"
          /\ gstate' = "playing"
          /\ InitializeGameSession
    /\ UNCHANGED << storage, poolOp, pc, fr >>

\* Game.quitToMenu() / Game.backToMenu(): forceTransition(MENU)
QuitToMenu ==
    /\ pc = "idle"
    /\ gstate \in { "paused", "game_over" }
    /\ gstate' = "menu"
    /\ UNCHANGED << storage, objs, available, inUse, poolOp, pc, fr, player, enemies,
                    bullets, powerups, explosions, floatingTexts, game, spawn,
                    obs >>

\* An enemy fires: EntityManager.addBullet(x, y, vx, vy, false, damage)
EnemyFire ==
    /\ pc = "idle"
    /\ gstate = "playing"
    /\ fr.profile.fire
    /\ Len(bullets) < MaxBullets
    /\ ActiveCount(enemies) > 0
    /\ LET r == AddBullets(ThePool, bullets, 1, FALSE, BULLET_DAMAGE)
       IN  /\ SetPool(r.pool)
           /\ bullets' = r.bullets
    /\ UNCHANGED << storage, poolOp, gstate, pc, fr, player, enemies, powerups,
                    explosions, floatingTexts, game, spawn, obs >>

\* Game.update(deltaTime) up to the collision checks: updatePlayerInput and
\* EntityManager.update.  shoot is the state of the fire key, offB the
\* positions of the bullets that have left the screen, offP those of the
\* power-ups.
FrameBegin(dt, shoot, offB, offP) ==
    /\ pc = "idle"
    /\ gstate = "playing"
    /\ fr.n < fr.profile.frames
    /\ LET alive == player.set /\ IsAlive(player)
           fire  == alive /\ shoot /\ player.canShoot
           p1    == IF fire THEN PlayerShoot(player) ELSE player
           r1    == IF fire
                    THEN AddBullets(ThePool, bullets,
                                    BulletsPerShot(player.weaponLevel),
                                    TRUE, player.bulletDamage)
                    ELSE [ pool |-> ThePool, bullets |-> bullets ]
       IN  /\ Len(r1.bullets) <= fr.profile.bullets
           /\ \E u \in { EntityManagerUpdate(p1, enemies, r1.pool, r1.bullets,
                                                powerups, explosions,
                                                floatingTexts, dt, {}, offB,
                                                offP) } :
                /\ explosions' = u.explosions
                /\ floatingTexts' = u.floatingTexts
                /\ player' = u.player
                /\ enemies' = u.enemies
                /\ SetPool(u.pool)
                /\ bullets' = u.bullets
                /\ powerups' = u.powerups
                /\ fr' = [ fr EXCEPT !.n = @ + 1, !.dt = dt,
                                      !.nPowerups = Len(u.powerups) ]
                /\ pc' = IF u.player.set /\ IsAlive(u.player)
                         THEN "be" ELSE "end"
    /\ obs' = [ obs EXCEPT !.sinceKill = Elapsed(obs, @, dt) ]
    /\ UNCHANGED << storage, poolOp, gstate, game, spawn >>

\* The outcomes of the drop draws of one collision pass: at most MaxOverlap
\* draws, and no more drops than the model keeps power-ups
DropSeqs ==
    { d \in [ 1..MaxOverlap -> { "none" } \cup fr.profile.drops ] :
        Cardinality({ r \in 1..MaxOverlap : d[r] # "none" }) + Len(powerups)
          <= MaxPowerUps }

NoDrops == [ r \in 1..MaxOverlap |-> "none" ]

\* Subsets of S with at most n elements
UpTo(S, n) == { T \in SUBSET S : Cardinality(T) <= n }

\* CollisionSystem.checkBulletEnemyCollisions(playerBullets, enemies)
CollideBulletsEnemies(hit, drops) ==
    /\ pc = "be"
    /\ LET ids(n) == { k \in 1..Len(enemies) :
                         Cardinality({ h \in hit : h[2] = k }) >= n }
           w0 == [ World EXCEPT !.obs.rolls = 0, !.obs.events = 0,
                                !.obs.hitOnce = ids(1),
                                !.obs.hitTwice = ids(2) ]
       IN  SetWorld(CheckBulletEnemyCollisions(
                      w0, BulletsOf(objs, bullets, TRUE), 1, hit, drops))
    /\ pc' = "bp"
    /\ UNCHANGED << storage, available, inUse, poolOp, gstate, fr, bullets, spawn >>

\* CollisionSystem.checkBulletPlayerCollisions(enemyBullets, player)
CollideBulletsPlayer(hitP) ==
    /\ pc = "bp"
    /\ SetWorld(CheckBulletPlayerCollisions(
                  World, BulletsOf(objs, bullets, FALSE), hitP))
    /\ pc' = "pe"
    /\ UNCHANGED << storage, available, inUse, poolOp, gstate, fr, bullets, spawn >>

\* CollisionSystem.checkPlayerEnemyCollisions(player, enemies)
CollidePlayerEnemies(touch, drops) ==
    /\ pc = "pe"
    /\ LET w0 == [ World EXCEPT !.obs.rolls = 0, !.obs.events = 0,
                                !.obs.hitTwice = @ \cup (touch \cap obs.hitOnce),
                                !.obs.hitOnce = @ \cup touch ]
       IN  SetWorld(CheckPlayerEnemyCollisions(w0, touch, drops))
    /\ pc' = "pp"
    /\ UNCHANGED << storage, available, inUse, poolOp, gstate, fr, bullets, spawn >>

\* CollisionSystem.checkPlayerPowerupCollisions(player, powerups), over the
\* power-ups that existed when checkCollisions began
CollidePlayerPowerups(collect) ==
    /\ pc = "pp"
    /\ SetWorld(CheckPlayerPowerupCollisions(
                  [ World EXCEPT !.obs.rolls = 0, !.obs.events = 0 ],
                  fr.nPowerups, collect))
    /\ pc' = "end"
    /\ UNCHANGED << storage, available, inUse, poolOp, gstate, fr, bullets, spawn >>

\* The rest of Game.update(deltaTime): spawnSystem.update, updateCombo,
\* updateBuffs, and endGame() when the player is dead
FrameEnd(c, pick) ==
    /\ pc = "end"
    /\ LET r  == SpawnUpdate([ World EXCEPT !.obs.lastSpawn = NoSpawn ],
                              spawn, fr.dt, c, pick)
           w1 == [ r.world EXCEPT !.game = UpdateCombo(@, fr.dt) ]
           w2 == UpdateBuffs(w1, fr.dt)
           w3 == [ w2 EXCEPT !.obs =
                     [ @ EXCEPT !.sinceStart = Elapsed(obs, @, fr.dt),
                                !.comboAge =
                                    IF w2.obs.killed
                                    THEN Min(w2.obs.comboAge + fr.dt,
                                             COMBO_TIMEOUT)
                                    ELSE 0,
                                !.edges = EdgesOf(spawn, r.spawn),
                                !.events = 0, !.rolls = 0,
                                !.hitOnce = {}, !.hitTwice = {},
                                !.frameHits = << >>, !.shots = << >>,
                                !.contacts = << >>, !.pickups = << >>,
                                !.lastKill = NoKill, !.lastBomb = NoBomb ] ]
       IN  /\ SetWorld(w3)
           /\ spawn' = r.spawn
           /\ gstate' = IF w3.player.set /\ ~IsAlive(w3.player)
                           /\ CanTransition(gstate, "game_over")
                        THEN "game_over" ELSE gstate
    /\ pc' = "idle"
    /\ UNCHANGED << storage, available, inUse, poolOp, fr, bullets >>

PlayerBulletIds == Range(BulletsOf(objs, bullets, TRUE))
EnemyBulletIds == Range(BulletsOf(objs, bullets, FALSE))

\* One frame, with the inputs of the run's profile
Frame ==
    \/ \E dt \in fr.profile.dts, shoot \in BOOLEAN :
         \E offB \in (IF fr.profile.leave THEN SUBSET (1..Len(bullets))
                      ELSE { {} }),
            offP \in (IF fr.profile.leave THEN SUBSET (1..Len(powerups))
                      ELSE { {} }) :
            FrameBegin(dt, shoot, offB, offP)
    \/ \E hit \in UpTo(PlayerBulletIds \X (1..Len(enemies)), fr.profile.pairs) :
         \E drops \in (IF hit = {} THEN { NoDrops } ELSE DropSeqs) :
            CollideBulletsEnemies(hit, drops)
    \/ \E hitP \in SUBSET EnemyBulletIds : CollideBulletsPlayer(hitP)
    \/ \E touch \in UpTo(1..Len(enemies), fr.profile.touch) :
         \E drops \in (IF touch = {} THEN { NoDrops } ELSE DropSeqs) :
            CollidePlayerEnemies(touch, drops)
    \/ \E collect \in SUBSET (1..fr.nPowerups) : CollidePlayerPowerups(collect)
    \/ \E c \in (IF Len(spawn.enemiesToSpawn) = 0 THEN { 1 }
                 ELSE FirstOccurrences(spawn.enemiesToSpawn)) :
         \E pick \in PatternPicks(spawn.currentWave + 1) : FrameEnd(c, pick)

Next ==
    \/ StartGame
    \/ Frame

\* The game from construction, played with the profiles of Profiles
Spec == Init /\ [][Next]_vars

InitPowerUps ==
    /\ EntityManagerCtor
    /\ \E profile \in PowerUpProfiles : GameCtor(profile)

NextPowerUps ==
    \/ StartGame
    \/ EnemyFire
    \/ Frame

\* The game from construction, played with the profiles of PowerUpProfiles
SpecPowerUps == InitPowerUps /\ [][NextPowerUps]_vars

(***************************************************************************)
(* Specification SpecScore: the scoring handlers on their own.             *)
(***************************************************************************)
\* collisionSystem's onEnemyDestroyed callback, for an enemy whose health
\* has reached 0
ScoreKill ==
    /\ pc = "idle"
    /\ gstate = "playing"
    /\ fr.n < MaxKills
    /\ LET e  == [ NewEnemy("basic", "straight") EXCEPT
                     !.health = 0, !.active = FALSE ]
           w1 == OnEnemyDestroyed([ World EXCEPT !.enemies = << e >> ],
                                  1, << >>)
       IN  /\ game' = w1.game
           /\ obs' = w1.obs
           /\ explosions' = w1.explosions
           /\ floatingTexts' = w1.floatingTexts
    /\ fr' = [ fr EXCEPT !.n = @ + 1 ]
    /\ UNCHANGED << storage, objs, available, inUse, poolOp, gstate, pc, player,
                    enemies, bullets, powerups, spawn >>

\* Game.updateCombo(deltaTime)
TickCombo(dt) ==
    /\ pc = "idle"
    /\ gstate = "playing"
    /\ game' = UpdateCombo(game, dt)
    /\ UNCHANGED << storage, objs, available, inUse, poolOp, gstate, pc, fr, player,
                    enemies, bullets, powerups, explosions, floatingTexts,
                    spawn, obs >>

InitScore ==
    /\ EntityManagerCtor
    /\ GameCtor(Combat)

NextScore ==
    \/ StartGame
    \/ ScoreKill
    \/ \E dt \in DeltaTimes : TickCombo(dt)

SpecScore == InitScore /\ [][NextScore]_vars

(***************************************************************************)
(* Specification SpecMult: getComboMultiplier as a function of the combo.  *)
(***************************************************************************)
InitMult ==
    /\ EntityManagerCtor
    /\ gstate = "playing"
    /\ pc = "idle"
    /\ fr = NewFrame(Combat)
    /\ player = NewPlayer
    /\ enemies = << >>
    /\ bullets = << >>
    /\ powerups = << >>
    /\ \E combo \in 0..MaxCombo : game = [ NewGame EXCEPT !.combo = combo ]
    /\ spawn = NewSpawnSystem
    /\ storage = << >>
    /\ obs = NewObs

\* Game.getComboMultiplier() at the session's combo and at the combo before
EvalMultiplier ==
    /\ ~obs.mult.set
    /\ obs' = [ obs EXCEPT !.mult =
                  [ set |-> TRUE, combo |-> game.combo,
                    value |-> GetComboMultiplier(game.combo),
                    prev |-> IF game.combo > 0
                             THEN GetComboMultiplier(game.combo - 1)
                             ELSE GetComboMultiplier(game.combo) ] ]
    /\ UNCHANGED << storage, objs, available, inUse, poolOp, gstate, pc, fr, player,
                    enemies, bullets, powerups, explosions, floatingTexts,
                    game, spawn >>

NextMult == EvalMultiplier

SpecMult == InitMult /\ [][NextMult]_vars

(***************************************************************************)
(* Specification SpecWave: the wave composer, wave after wave.             *)
(***************************************************************************)
\* SpawnSystem.startWave(1)
WaveStart ==
    /\ spawn.waveState = "waiting"
    /\ spawn' = SpawnStartWave(SpawnReset(spawn), 1, [ k \in 1..5 |-> 1 ])
    /\ UNCHANGED << storage, objs, available, inUse, poolOp, gstate, pc, fr, player,
                    enemies, bullets, powerups, explosions, floatingTexts,
                    game, obs >>

\* SpawnSystem.startNextWave()
WaveNext(pick) ==
    /\ spawn.waveState = "spawning"
    /\ spawn.currentWave < MaxWaveNumber
    /\ spawn' = StartNextWave(World, spawn, pick).spawn
    /\ UNCHANGED << storage, objs, available, inUse, poolOp, gstate, pc, fr, player,
                    enemies, bullets, powerups, explosions, floatingTexts,
                    game, obs >>

InitWave ==
    /\ EntityManagerCtor
    /\ GameCtor(Combat)

NextWave ==
    \/ WaveStart
    \/ \E pick \in PatternPicks(spawn.currentWave + 1) : WaveNext(pick)

SpecWave == InitWave /\ [][NextWave]_vars

(***************************************************************************)
(* Specification SpecManager: the EntityManager and the handlers that act  *)
(* on its entities, called one at a time on a started session.             *)
(***************************************************************************)
ManagerEnemyKinds == { "basic", "tank" }

\* entityManager.addEnemy(new Enemy(x, y, kind))
AddEnemy(kind) ==
    /\ pc = "idle"
    /\ gstate = "playing"
    /\ Len(enemies) < MaxOverlap
    /\ enemies' = Append(enemies, NewEnemy(kind, "straight"))
    /\ UNCHANGED << storage, objs, available, inUse, poolOp, gstate, pc, fr, player,
                    bullets, powerups, explosions, floatingTexts, game, spawn,
                    obs >>

\* entityManager.addBullet(x, y, vx, vy, isPlayerBullet)
AddBullet(isPlayerBullet) ==
    /\ pc = "idle"
    /\ gstate = "playing"
    /\ Len(bullets) < fr.profile.bullets
    /\ LET r == AddBullets(ThePool, bullets, 1, isPlayerBullet, BULLET_DAMAGE)
       IN  /\ SetPool(r.pool)
           /\ bullets' = r.bullets
    /\ UNCHANGED << storage, poolOp, gstate, pc, fr, player, enemies, powerups,
                    explosions, floatingTexts, game, spawn, obs >>

\* entityManager.update(deltaTime, width, height), with the enemies and the
\* bullets at the positions offE and offB outside the bounds and the margin
EntityUpdate(dt, offE, offB) ==
    /\ pc = "idle"
    /\ gstate = "playing"
    /\ \E u \in { EntityManagerUpdate(player, enemies, ThePool, bullets,
                                       powerups, explosions, floatingTexts,
                                       dt, offE, offB, {}) } :
       LET ids == { bullets[k] : k \in { j \in offB : objs[bullets[j]].active } }
       IN  /\ explosions' = u.explosions
           /\ floatingTexts' = u.floatingTexts
           /\ player' = u.player
           /\ enemies' = u.enemies
           /\ SetPool(u.pool)
           /\ bullets' = u.bullets
           /\ powerups' = u.powerups
           /\ obs' = [ obs EXCEPT !.pickups = << >>, !.lastUpdate =
                 [ set |-> TRUE,
                   enemiesIn |-> ActiveCount(enemies),
                   enemiesOff |->
                       Cardinality({ k \in offE : enemies[k].active }),
                   enemiesOut |-> Len(u.enemies),
                   bulletsOff |-> Cardinality(ids),
                   bulletsGone |-> \A b \in ids :
                       ~u.pool.objs[b].active /\ b \notin Range(u.bullets) ] ]
    /\ fr' = [ fr EXCEPT !.dt = dt ]
    /\ UNCHANGED << storage, poolOp, gstate, pc, game, spawn >>

InitManager ==
    /\ EntityManagerCtor
    /\ GameCtor(Profile("manager", 0, FrameTimes, TRUE, 0, 0, {}, FALSE, 2))

NextManager ==
    \/ StartGame
    \/ \E kind \in ManagerEnemyKinds : AddEnemy(kind)
    \/ \E isPlayerBullet \in BOOLEAN : AddBullet(isPlayerBullet)
    \/ \E dt \in FrameTimes :
         \E offE \in SUBSET (1..Len(enemies)), offB \in SUBSET (1..Len(bullets)) :
            EntityUpdate(dt, offE, offB)

SpecManager == InitManager /\ [][NextManager]_vars

(***************************************************************************)
(* Specification SpecSpawn: the spawn state machine over several waves,    *)
(* with sessions ended and begun again by pause and resume.                *)
(***************************************************************************)
\* spawnSystem.update(deltaTime), as Game.update calls it
SpawnTick(dt, c, pick) ==
    /\ pc = "idle"
    /\ gstate = "playing"
    /\ fr.n < MaxSpawnTicks
    /\ LET r == SpawnUpdate([ World EXCEPT !.obs.lastSpawn = NoSpawn ],
                             spawn, dt, c, pick)
       IN  /\ SetWorld([ r.world EXCEPT
                           !.obs.edges = EdgesOf(spawn, r.spawn) ])
           /\ spawn' = r.spawn
    /\ fr' = [ fr EXCEPT !.n = @ + 1, !.dt = dt ]
    /\ UNCHANGED << storage, available, inUse, poolOp, gstate, pc, bullets >>

\* entityManager.clearEnemies()
ClearEnemies ==
    /\ pc = "idle"
    /\ gstate = "playing"
    /\ Len(enemies) > 0
    /\ enemies' = << >>
    /\ UNCHANGED << storage, objs, available, inUse, poolOp, gstate, pc, fr, player,
                    bullets, powerups, explosions, floatingTexts, game, spawn,
                    obs >>

InitSpawn ==
    /\ EntityManagerCtor
    /\ GameCtor(Combat)

NextSpawn ==
    \/ StartGame
    \/ TogglePause
    \/ ClearEnemies
    \/ \E dt \in DeltaTimes :
         \E c \in (IF Len(spawn.enemiesToSpawn) = 0 THEN { 1 }
                   ELSE FirstOccurrences(spawn.enemiesToSpawn)) :
            \E pick \in PatternPicks(spawn.currentWave + 1) :
               SpawnTick(dt, c, pick)

SpecSpawn == InitSpawn /\ [][NextSpawn]_vars

(***************************************************************************)
(* Specification SpecState: a GameState object on its own, with listeners  *)
(* that record their calls.                                                *)
(***************************************************************************)
States == { "menu", "playing", "paused", "game_over" }

\* Arguments given to transition(): the states and a name that is no state
Requests == States \cup { "instructions" }

\* States for which listeners are registered
ListenerStates == { "playing", "paused" }

\* The calls exit(state) / enter(state) make: the callbacks registered for
\* the state, in order of registration
ListenerCalls(kind, state, n) == [ i \in 1..n |-> << kind, state, i >> ]

GameStateTransitionEnterFirst(current, m, newState) ==
    IF ~CanTransition(current, newState)
    THEN [ current |-> current, machine |-> m, result |-> FALSE,
           calls |-> << >> ]
    ELSE [ current |-> newState,
           machine |-> [ m EXCEPT !.previous = current ],
           result |-> TRUE,
           calls |-> ListenerCalls("enter", newState, m.enter[newState])
                     \o ListenerCalls("exit", current, m.exit[current]) ]

\* GameState.transition(newState) on the object with the fields current and
\* m: the object after the call, the value returned and the listener calls
GameStateTransition(current, m, newState) ==
    IF ~CanTransition(current, newState)
    THEN [ current |-> current, machine |-> m, result |-> FALSE,
           calls |-> << >> ]
    ELSE [ current |-> newState,
           machine |-> [ m EXCEPT !.previous = current ],
           result |-> TRUE,
           calls |-> ListenerCalls("exit", current, m.exit[current])
                     \o ListenerCalls("enter", newState, m.enter[newState]) ]

\* state.transition(newState)
Transition(newState) ==
    /\ LET r == GameStateTransition(gstate, obs.machine, newState)
       IN  /\ gstate' = r.current
           /\ obs' = [ obs EXCEPT !.machine =
                        [ r.machine EXCEPT !.last =
                            [ set |-> TRUE, from |-> gstate,
                              request |-> newState,
                              previousBefore |-> obs.machine.previous,
                              result |-> r.result, calls |-> r.calls ] ] ]
    /\ UNCHANGED << storage, objs, available, inUse, poolOp, pc, fr, player, enemies,
                    bullets, powerups, explosions, floatingTexts, game, spawn >>

\* state.onEnter(s, callback)
OnEnter(s) ==
    /\ obs.machine.enter[s] < MaxListeners
    /\ obs' = [ obs EXCEPT !.machine.enter[s] = @ + 1,
                           !.machine.last = NoTransition ]
    /\ UNCHANGED << storage, objs, available, inUse, poolOp, gstate, pc, fr, player,
                    enemies, bullets, powerups, explosions, floatingTexts,
                    game, spawn >>

\* state.onExit(s, callback)
OnExit(s) ==
    /\ obs.machine.exit[s] < MaxListeners
    /\ obs' = [ obs EXCEPT !.machine.exit[s] = @ + 1,
                           !.machine.last = NoTransition ]
    /\ UNCHANGED << storage, objs, available, inUse, poolOp, gstate, pc, fr, player,
                    enemies, bullets, powerups, explosions, floatingTexts,
                    game, spawn >>

InitState ==
    /\ EntityManagerCtor
    /\ GameCtor(Combat)

NextState ==
    \/ \E newState \in Requests : Transition(newState)
    \/ \E s \in ListenerStates : OnEnter(s)
    \/ \E s \in ListenerStates : OnExit(s)

SpecState == InitState /\ [][NextState]_vars

(***************************************************************************)
(* Specification SpecPace: the spawn state machine called with frame times *)
(* shorter and longer than the spawn delay of the wave.                    *)
(***************************************************************************)
SpawnTimes == { 400, 1000, 2000 }

InitPace ==
    /\ EntityManagerCtor
    /\ GameCtor(Combat)

NextPace ==
    \/ StartGame
    \/ ClearEnemies
    \/ \E dt \in SpawnTimes :
         \E c \in (IF Len(spawn.enemiesToSpawn) = 0 THEN { 1 }
                   ELSE FirstOccurrences(spawn.enemiesToSpawn)) :
            \E pick \in PatternPicks(spawn.currentWave + 1) :
               SpawnTick(dt, c, pick)

SpecPace == InitPace /\ [][NextPace]_vars

(***************************************************************************)
(* Specification SpecQueue: the spawn state machine fed wave descriptors   *)
(* in which an entry has a movement-pattern name that is no pattern.       *)
(***************************************************************************)
\* Names that are not cases of getMovementPattern
UnknownPatterns == { "spiral" }

\* A malformed descriptor: entry k of enemiesToSpawn has the pattern name
\* name; at most one such entry in the queue at a time
Malform(k, name) ==
    /\ pc = "idle"
    /\ gstate = "playing"
    /\ spawn.waveState = "spawning"
    /\ k \in 1..Len(spawn.enemiesToSpawn)
    /\ \A j \in 1..Len(spawn.enemiesToSpawn) :
          spawn.enemiesToSpawn[j].patternName \in PatternNames
    /\ spawn' = [ spawn EXCEPT !.enemiesToSpawn[k].patternName = name ]
    /\ UNCHANGED << storage, objs, available, inUse, poolOp, gstate, pc, fr, player,
                    enemies, bullets, powerups, explosions, floatingTexts,
                    game, obs >>

InitQueue ==
    /\ EntityManagerCtor
    /\ GameCtor(Combat)

NextQueue ==
    \/ StartGame
    \/ ClearEnemies
    \/ \E k \in FirstOccurrences(spawn.enemiesToSpawn) :
         \E name \in UnknownPatterns : Malform(k, name)
    \/ \E dt \in DeltaTimes :
         \E c \in (IF Len(spawn.enemiesToSpawn) = 0 THEN { 1 }
                   ELSE FirstOccurrences(spawn.enemiesToSpawn)) :
            \E pick \in PatternPicks(spawn.currentWave + 1) :
               SpawnTick(dt, c, pick)

SpecQueue == InitQueue /\ [][NextQueue]_vars

(***************************************************************************)
(* Specification SpecZigzag: the zigzag movement pattern called on two     *)
(* enemies with frame times of their own.                                  *)
(***************************************************************************)
PatternTimes == { 500, 1000, 2000 }

\* entityManager.addEnemy(enemy) after enemy.setPattern(pattern), as
\* spawnNextEnemy does
AddPatternEnemy(kind, patternName) ==
    /\ pc = "idle"
    /\ gstate = "playing"
    /\ Len(enemies) < MaxOverlap
    /\ enemies' = Append(enemies,
                         NewEnemy(kind, GetMovementPattern(patternName)))
    /\ UNCHANGED << storage, objs, available, inUse, poolOp, gstate, pc, fr, player,
                    bullets, powerups, explosions, floatingTexts, game, spawn,
                    obs >>

\* enemy.movePattern(enemy, deltaTime) for enemy k, whose pattern is zigzag
PatternStep(k, dt) ==
    /\ pc = "idle"
    /\ gstate = "playing"
    /\ k \in 1..Len(enemies)
    /\ enemies[k].pattern = "zigzag"
    /\ enemies[k].patternCalls < MaxPatternCalls
    /\ enemies' = [ enemies EXCEPT ![k] =
                      [ Zigzag(@, dt) EXCEPT !.patternCalls = @ + 1,
                                             !.patternTime = @ + dt ] ]
    /\ UNCHANGED << storage, objs, available, inUse, poolOp, gstate, pc, fr, player,
                    bullets, powerups, explosions, floatingTexts, game, spawn,
                    obs >>

InitZigzag ==
    /\ EntityManagerCtor
    /\ GameCtor(Combat)

NextZigzag ==
    \/ StartGame
    \/ AddPatternEnemy("zigzag", "zigzag")
    \/ \E k \in 1..Len(enemies), dt \in PatternTimes : PatternStep(k, dt)

SpecZigzag == InitZigzag /\ [][NextZigzag]_vars

(***************************************************************************)
(* Specification SpecContact: enemies of several kinds run into the player *)
(* of a started session, between updates of the EntityManager.             *)
(***************************************************************************)
\* collisionSystem.checkPlayerEnemyCollisions(player, enemies), the enemies
\* at the positions of touch overlapping the player
PlayerContact(touch) ==
    /\ pc = "idle"
    /\ gstate = "playing"
    /\ touch # {}
    /\ SetWorld(CheckPlayerEnemyCollisions(
                  [ World EXCEPT !.obs.contacts = << >> ], touch, NoDrops))
    /\ UNCHANGED << storage, available, inUse, poolOp, gstate, pc, fr, bullets, spawn >>

InitContact ==
    /\ EntityManagerCtor
    /\ GameCtor(Combat)

NextContact ==
    \/ StartGame
    \/ \E kind \in ManagerEnemyKinds : AddEnemy(kind)
    \/ \E touch \in SUBSET (1..Len(enemies)) : PlayerContact(touch)
    \/ \E dt \in FrameTimes : EntityUpdate(dt, {}, {})

SpecContact == InitContact /\ [][NextContact]_vars

(***************************************************************************)
(* Specification SpecShield: the operations that give the player a shield  *)
(* (the game's buff on a pickup, the player's own flag by applyPowerUp)    *)
(* and the enemy bullets that reach the player, between updates of the     *)
(* EntityManager.                                                          *)
(***************************************************************************)
\* entityManager.addPowerUp(new PowerUp(x, y, type))
AddPowerUp(ptype) ==
    /\ pc = "idle"
    /\ gstate = "playing"
    /\ Len(powerups) < MaxPowerUps
    /\ powerups' = Append(powerups, [ ptype |-> ptype, active |-> TRUE ])
    /\ UNCHANGED << storage, objs, available, inUse, poolOp, gstate, pc, fr, player,
                    enemies, bullets, explosions, floatingTexts, game, spawn,
                    obs >>

\* collisionSystem.checkPlayerPowerupCollisions(player, powerups), the
\* power-ups at the positions of collect overlapping the player
PlayerPickup(collect) ==
    /\ pc = "idle"
    /\ gstate = "playing"
    /\ collect # {}
    /\ SetWorld(CheckPlayerPowerupCollisions(
                  [ World EXCEPT !.obs.pickups = << >> ],
                  Len(powerups), collect))
    /\ UNCHANGED << storage, available, inUse, poolOp, gstate, pc, fr, bullets, spawn >>

\* collisionSystem.checkBulletPlayerCollisions(enemyBullets, player), the
\* bullets of hitP overlapping the player
BulletContact(hitP) ==
    /\ pc = "idle"
    /\ gstate = "playing"
    /\ hitP # {}
    /\ SetWorld(CheckBulletPlayerCollisions(
                  [ World EXCEPT !.obs.frameHits = << >> ],
                  BulletsOf(objs, bullets, FALSE), hitP))
    /\ UNCHANGED << storage, available, inUse, poolOp, gstate, pc, fr, bullets, spawn >>

\* player.applyPowerUp(Config.POWERUP_TYPES.SHIELD)
ApplyShield ==
    /\ pc = "idle"
    /\ gstate = "playing"
    /\ IsAlive(player)
    /\ player' = PlayerApplyShield(player)
    /\ UNCHANGED << storage, objs, available, inUse, poolOp, gstate, pc, fr, enemies,
                    bullets, powerups, explosions, floatingTexts, game, spawn,
                    obs >>

InitShield ==
    /\ EntityManagerCtor
    /\ GameCtor(Profile("shield", 0, DeltaTimes, FALSE, 0, 0, {}, TRUE, 2))

NextShield ==
    \/ StartGame
    \/ AddPowerUp("shield")
    \/ ApplyShield
    \/ \E collect \in SUBSET (1..Len(powerups)) : PlayerPickup(collect)
    \/ AddBullet(FALSE)
    \/ \E hitP \in SUBSET EnemyBulletIds : BulletContact(hitP)
    \/ \E dt \in fr.profile.dts : EntityUpdate(dt, {}, {})

SpecShield == InitShield /\ [][NextShield]_vars

(***************************************************************************)
(* Specification SpecDeath: the game played with the enemies of wave 1     *)
(* running into a player who does not fire, until the player is dead.      *)
(***************************************************************************)
InitDeath ==
    /\ EntityManagerCtor
    /\ GameCtor(Profile("death", MaxDeathFrames, DeltaTimes, FALSE, 0, 1, {},
                        FALSE, 0))

NextDeath ==
    \/ StartGame
    \/ Frame

SpecDeath == InitDeath /\ [][NextDeath]_vars

(***************************************************************************)
(* Specification SpecBuffs: power-ups of the three lasting kinds put in    *)
(* front of the player and collected, the buffs counted down, sessions     *)
(* started, paused and resumed.                                            *)
(***************************************************************************)
\* The kinds of power-up of a run: one lasting kind, or two of them
BuffTypes ==
    { { "triple_shot" }, { "rapid_fire" }, { "shield" },
      { "triple_shot", "rapid_fire" }, { "rapid_fire", "shield" } }

\* Game.updateBuffs(deltaTime), as Game.update calls it
BuffTick(dt) ==
    /\ pc = "idle"
    /\ gstate = "playing"
    /\ SetWorld(UpdateBuffs([ World EXCEPT !.obs.pickups = << >> ], dt))
    /\ UNCHANGED << storage, available, inUse, poolOp, gstate, pc, fr, bullets, spawn >>

InitBuffs ==
    /\ EntityManagerCtor
    /\ \E types \in BuffTypes :
         GameCtor(Profile("buffs", 0, DeltaTimes, FALSE, 0, 0, types,
                          FALSE, 0))

NextBuffs ==
    \/ StartGame
    \/ TogglePause
    \/ /\ Len(floatingTexts) < MaxEffects
       /\ \E ptype \in fr.profile.drops : AddPowerUp(ptype)
    \/ \E collect \in SUBSET (1..Len(powerups)) : PlayerPickup(collect)
    \/ \E dt \in fr.profile.dts : BuffTick(dt)
    \/ \E dt \in fr.profile.dts : EntityUpdate(dt, {}, {})

SpecBuffs == InitBuffs /\ [][NextBuffs]_vars

(***************************************************************************)
(* Specification SpecClear: the EntityManager's collections filled through *)
(* its add methods and emptied by clearAll.                                *)
(***************************************************************************)
ExplosionSizes == { "small", "medium", "large" }

\* entityManager.addExplosion(new Explosion(x, y, size))
AddExplosion(size) ==
    /\ pc = "idle"
    /\ gstate = "playing"
    /\ Len(explosions) < MaxEffects
    /\ explosions' = Append(explosions, NewExplosion(size))
    /\ UNCHANGED << storage, objs, available, inUse, poolOp, gstate, pc, fr, player,
                    enemies, bullets, powerups, floatingTexts, game, spawn,
                    obs >>

\* entityManager.addFloatingText(new FloatingText(x, y, text, color))
AddFloatingText ==
    /\ pc = "idle"
    /\ gstate = "playing"
    /\ Len(floatingTexts) < MaxEffects
    /\ floatingTexts' = Append(floatingTexts, NewFloatingText)
    /\ UNCHANGED << storage, objs, available, inUse, poolOp, gstate, pc, fr, player,
                    enemies, bullets, powerups, explosions, game, spawn, obs >>

\* entityManager.clearAll(): the player slot, then clearEnemies,
\* clearBullets, clearPowerUps and clearExplosions
ClearAll ==
    /\ pc = "idle"
    /\ player' = NoPlayer
    /\ enemies' = << >>
    /\ SetPool(ReleaseAll(ThePool, bullets, 1))
    /\ bullets' = << >>
    /\ powerups' = << >>
    /\ explosions' = << >>
    /\ UNCHANGED << storage, poolOp, gstate, pc, fr, floatingTexts, game, spawn, obs >>

\* entityManager.clearBullets()
ClearBullets ==
    /\ pc = "idle"
    /\ SetPool(ReleaseAll(ThePool, bullets, 1))
    /\ bullets' = << >>
    /\ UNCHANGED << storage, poolOp, gstate, pc, fr, player, enemies, powerups,
                    explosions, floatingTexts, game, spawn, obs >>

InitClear ==
    /\ EntityManagerCtor
    /\ GameCtor(Combat)

NextClear ==
    \/ StartGame
    \/ \E kind \in ManagerEnemyKinds : AddEnemy(kind)
    \/ \E isPlayerBullet \in BOOLEAN : AddBullet(isPlayerBullet)
    \/ \E size \in ExplosionSizes : AddExplosion(size)
    \/ AddFloatingText
    \/ ClearAll

SpecClear == InitClear /\ [][NextClear]_vars

(***************************************************************************)
(* Specification SpecBullets: the bullet list and the bullet pool under    *)
(* the EntityManager's operations, with bullets of both owners, bullets    *)
(* leaving the bounds and enemy bullets hitting the player.                *)
(***************************************************************************)
InitBullets ==
    /\ EntityManagerCtor
    /\ GameCtor(Profile("bullets", 0, FrameTimes, TRUE, 0, 0, {}, TRUE,
                        MaxBullets))

NextBullets ==
    \/ StartGame
    \/ \E isPlayerBullet \in BOOLEAN : AddBullet(isPlayerBullet)
    \/ /\ Len(explosions) < MaxEffects
       /\ \E hitP \in SUBSET EnemyBulletIds : BulletContact(hitP)
    \/ \E dt \in FrameTimes :
         \E offB \in SUBSET (1..Len(bullets)) : EntityUpdate(dt, {}, offB)
    \/ ClearBullets
    \/ ClearAll

SpecBullets == InitBullets /\ [][NextBullets]_vars

(***************************************************************************)
(* Specification SpecFlight: the flight of the player's bullets, frame     *)
(* after frame, with their vertical position: fired from the player's      *)
(* start position, moved by Entity.update, destroyed when off screen or    *)
(* when they hit a target, released by the next cleanup.                   *)
(***************************************************************************)
FlightTimes == { 100, 200, 300, 400 }

\* EntityManager.updateEntities(bullets, ...): every active bullet of the
\* list moves and is destroyed if it is then off screen
MoveBullets(os, bl, dt) ==
    [ b \in DOMAIN os |->
        IF b \in Range(bl) /\ os[b].active
        THEN LET m == BulletMove(os[b], dt)
             IN  IF BulletIsOffScreen(m) THEN EntityDestroy(m) ELSE m
        ELSE os[b] ]

\* The bullet's part of Game.update(deltaTime): updatePlayerInput with the
\* fire key in the state shoot (weapon level 1, player at its start
\* position), EntityManager.update with its cleanup, and the bullets of hit
\* destroyed by checkBulletEnemyCollisions
FlightFrame(dt, shoot, hit) ==
    /\ pc = "idle"
    /\ gstate = "playing"
    /\ LET fire == IsAlive(player) /\ shoot /\ player.canShoot
           g    == PoolGet(ThePool, TRUE, player.bulletDamage)
           pool1 == IF fire
                    THEN [ g.pool EXCEPT !.objs[g.obj] =
                             BulletInitAt(@, PLAYER_START_Y - BULLET_HEIGHT,
                                          -BULLET_SPEED) ]
                    ELSE ThePool
           bl1  == IF fire THEN Append(bullets, g.obj) ELSE bullets
           p1   == PlayerOnUpdate(IF fire THEN PlayerShoot(player)
                                  ELSE player, dt)
       IN  /\ Len(bl1) <= MaxFlight
           /\ \E r \in { CleanupBullets(
                            [ pool1 EXCEPT !.objs = MoveBullets(@, bl1, dt) ],
                            bl1, Len(bl1)) } :
                /\ hit \subseteq { b \in Range(r.bullets) : r.pool.objs[b].active }
                /\ SetPool([ r.pool EXCEPT !.objs =
                              [ b \in DOMAIN @ |->
                                  IF b \in hit THEN EntityDestroy(@[b])
                                  ELSE @[b] ] ])
                /\ bullets' = r.bullets
           /\ player' = p1
    /\ fr' = [ fr EXCEPT !.dt = dt ]
    /\ UNCHANGED << storage, poolOp, gstate, pc, enemies, powerups, explosions,
                    floatingTexts, game, spawn, obs >>

InitFlight ==
    /\ EntityManagerCtor
    /\ GameCtor(Profile("flight", 0, FlightTimes, FALSE, 0, 0, {}, FALSE,
                        MaxFlight))

FlightFrames ==
    \E dt \in FlightTimes, shoot \in BOOLEAN :
       \E hit \in SUBSET Range(bullets) : FlightFrame(dt, shoot, hit)

NextFlight ==
    \/ StartGame
    \/ FlightFrames

\* Frames keep being processed while the game is in the playing state
SpecFlight == InitFlight /\ [][NextFlight]_vars /\ WF_vars(FlightFrames)

\* ---- The high-score list on its own ----

PlayerNames == { "ACE" }

\* Game.submitHighScore() reaching saveHighScore(playerName, this.score)
SubmitHighScore(name, score) ==
    /\ obs.submitted[score] < MaxSaves
    /\ storage' = SaveHighScore(storage, name, score)
    /\ obs' = [ obs EXCEPT !.submitted[score] = @ + 1 ]
    /\ UNCHANGED << objs, available, inUse, poolOp, gstate, pc, fr, player,
                    enemies, bullets, powerups, explosions, floatingTexts,
                    game, spawn >>

InitScores ==
    /\ EntityManagerCtor
    /\ GameCtor(Combat)

NextScores ==
    \E name \in PlayerNames, score \in ScoreValues :
       SubmitHighScore(name, score)

SpecScores == InitScores /\ [][NextScores]_vars
(***************************************************************************)
(* Specification SpecPool: a pool on its own, driven by arbitrary calls.   *)
(***************************************************************************)
InitPool ==
    /\ \E n \in 0..MaxInitialSize :
          /\ objs = PoolNew(n).objs
          /\ available = PoolNew(n).available
          /\ inUse = PoolNew(n).inUse
    /\ poolOp = NoOp
    /\ explosions = << >>
    /\ floatingTexts = << >>
    /\ GameCtor(Combat)

\* pool.get(..., isPlayerBullet, damage)
Get(isPlayerBullet, damage) ==
    /\ Len(objs) < MaxObjs \/ Len(available) > 0
    /\ LET r == PoolGet(ThePool, isPlayerBullet, damage)
       IN  /\ SetPool(r.pool)
           /\ poolOp' = [ NoOp EXCEPT !.op = "get", !.obj = r.obj,
                            !.isPlayerBullet = isPlayerBullet,
                            !.damage = damage ]
    /\ UNCHANGED gameVars

\* pool.release(obj), for any instance of the class: in use, already free,
\* or constructed outside the pool
Release(obj) ==
    /\ SetPool(PoolRelease(ThePool, obj))
    /\ poolOp' = [ NoOp EXCEPT !.op = "release", !.obj = obj,
                     !.tracked = (obj \in Range(inUse)) ]
    /\ UNCHANGED gameVars

\* pool.releaseInactive()
ReleaseInactive ==
    /\ SetPool(PoolReleaseInactive(ThePool))
    /\ poolOp' = [ NoOp EXCEPT !.op = "releaseInactive" ]
    /\ UNCHANGED gameVars

\* pool.grow(count)
Grow(count) ==
    /\ Len(objs) + count <= MaxObjs
    /\ SetPool(PoolGrow(ThePool, count))
    /\ poolOp' = [ NoOp EXCEPT !.op = "grow" ]
    /\ UNCHANGED gameVars

\* obj.destroy() on an instance handed out by the pool
Destroy(obj) ==
    /\ objs[obj].active
    /\ objs' = [ objs EXCEPT ![obj] = EntityDestroy(@) ]
    /\ poolOp' = [ NoOp EXCEPT !.op = "destroy", !.obj = obj ]
    /\ UNCHANGED <<available, inUse>>
    /\ UNCHANGED gameVars

\* new Bullet() outside the pool: an instance the pool never handed out
Construct ==
    /\ Len(objs) < MaxObjs
    /\ objs' = Append(objs, NewBullet)
    /\ poolOp' = [ NoOp EXCEPT !.op = "construct", !.obj = Len(objs) + 1 ]
    /\ UNCHANGED <<available, inUse>>
    /\ UNCHANGED gameVars

\* Arguments given to get: the constructor's defaults, and an enemy bullet
\* of twice the damage
GetArgs == { << TRUE, BULLET_DAMAGE >>, << FALSE, 2 * BULLET_DAMAGE >> }

NextPool ==
    \/ \E args \in GetArgs : Get(args[1], args[2])
    \/ \E o \in 1..Len(objs) : Release(o)
    \/ ReleaseInactive
    \/ \E c \in 1..MaxGrow : Grow(c)
    \/ \E o \in 1..Len(objs) : Destroy(o)
    \/ Construct

SpecPool == InitPool /\ [][NextPool]_vars


(***************************************************************************)
(* Properties                                                              *)
(***************************************************************************)

\* C1: an enemy emits at most one enemy-destroyed event over its life; an
\* enemy overlapped (by bullets and/or the player) in a frame and dead
\* after it has emitted exactly one, and only dead enemies have emitted one.
C1_OneDestructionEvent ==
    \A k \in 1..Len(enemies) :
        /\ enemies[k].events <= 1
        /\ enemies[k].events = 1 => ~IsAlive(enemies[k])
        /\ (k \in obs.hitTwice /\ ~IsAlive(enemies[k]))
              => enemies[k].events = 1

\* An enemy overlapped twice in the frame whose first hit killed it
C1_Witness ==
    \E k \in 1..Len(enemies) :
        /\ k \in obs.hitTwice
        /\ enemies[k].health <= 0
        /\ enemies[k].events = 1

\* C2: with the shield buff active, the first enemy-bullet collision of a
\* frame deactivates the bullet, leaves the player's health unchanged and
\* clears the shield; the next enemy-bullet collision of the same frame
\* reduces the player's health by the bullet's damage.
C2_ShieldAbsorbsOneHit ==
    \A i \in 1..Len(obs.frameHits) :
        LET h == obs.frameHits[i]
        IN  h.shieldBefore =>
              /\ ~h.bulletActive
              /\ h.healthAfter = h.healthBefore
              /\ ~h.shieldAfter
              /\ i < Len(obs.frameHits) =>
                    LET h2 == obs.frameHits[i + 1]
                    IN  h2.healthAfter = h2.healthBefore - h2.damage

\* C3: Pool.release of an instance that is not tracked as in-use leaves the
\* in-use list and the free list unchanged.
C3_ReleaseUntrackedIsNoOp ==
    [][ (poolOp'.op = "release" /\ ~poolOp'.tracked)
          => (available' = available /\ inUse' = inUse) ]_vars

\* A release of an instance that is already in the free list
C3_Witness ==
    /\ poolOp.op = "release"
    /\ ~poolOp.tracked
    /\ poolOp.obj \in Range(available)
    /\ Len(inUse) > 0

\* C4: no instance is twice in the in-use list, twice in the free list, or
\* in both lists; Pool.get returns an instance that was not in use.
C4_NoSharedInstance ==
    /\ [](/\ NoDup(inUse)
          /\ NoDup(available)
          /\ Range(inUse) \cap Range(available) = {})
    /\ [][ poolOp'.op = "get" => poolOp'.obj \notin Range(inUse) ]_vars

\* A get while other instances are in use and free
C4_Witness ==
    /\ poolOp.op = "get"
    /\ Len(inUse) >= 2
    /\ Len(available) >= 1

\* C5: Pool.get returns an instance initialised with the arguments, active
\* and in the in-use list; the total size grows by one when the free list
\* was empty and is unchanged otherwise.
C5_GetInitialisesAndGrows ==
    [][ poolOp'.op = "get" =>
          /\ poolOp'.obj \in 1..Len(objs')
          /\ objs'[poolOp'.obj].active
          /\ objs'[poolOp'.obj].isPlayerBullet = poolOp'.isPlayerBullet
          /\ objs'[poolOp'.obj].damage = poolOp'.damage
          /\ poolOp'.obj \in Range(inUse')
          /\ Len(available') + Len(inUse') =
                Len(available) + Len(inUse)
                  + (IF Len(available) = 0 THEN 1 ELSE 0) ]_vars

\* A get that has taken the whole pool in use, with arguments other than
\* the constructor's defaults
C5_Witness ==
    /\ poolOp.op = "get"
    /\ ~poolOp.isPlayerBullet
    /\ poolOp.damage = 2
    /\ Len(available) = 0
    /\ Len(inUse) = Len(objs)
    /\ Len(inUse) >= 2

\* C6: the bomb leaves no active enemy, adds the sum of the active enemies'
\* scoreValue to the score, leaves combo and combo countdown unchanged,
\* emits no enemy-destroyed event and rolls no drop.
C6_BombClearsBoard ==
    obs.lastBomb.set =>
        /\ obs.lastBomb.activeAfter = 0
        /\ ActiveCount(enemies) = 0
        /\ obs.lastBomb.gained = obs.lastBomb.sum
        /\ obs.lastBomb.comboSame
        /\ obs.lastBomb.timerSame
        /\ obs.lastBomb.events = 0
        /\ obs.lastBomb.rolls = 0

\* A bomb activated against two active enemies while a combo is running
C6_Witness ==
    /\ obs.lastBomb.set
    /\ obs.lastBomb.n >= 2
    /\ game.combo >= 1

C8_KillAwardsFloorOfProduct ==
    obs.lastKill.set =>
        /\ obs.lastKill.combo = obs.lastKill.comboBefore + 1
        /\ obs.lastKill.comboTimer = COMBO_TIMEOUT
        /\ obs.lastKill.points =
              (obs.lastKill.scoreValue * Min(10 + obs.lastKill.combo, 50)) \div 10

\* C9 (as stated): the 5 Basic enemies of wave 1 destroyed one after
\* another, each kill 2000 ms of frame time after the previous one, end
\* with combo 5 and 150 points for the 5th kill.
C9_KillsAtTimeout ==
    (obs.streakEq = 5 /\ obs.lastKill.set) =>
        /\ obs.lastKill.combo = 5
        /\ obs.lastKill.points = 150

\* C9 (amended): the 5 Basic enemies of wave 1 destroyed one after another,
\* the frame of each kill starting less than 2000 ms of frame time after
\* the frame of the previous kill started, have combo 5, multiplier 1.5 and
\* 150 points for the 5th kill when the 5th enemy is destroyed.
C9_KillsWithinTimeout ==
    (obs.streakLt = 5 /\ obs.lastKill.set) =>
        /\ obs.lastKill.combo = 5
        /\ game.combo = 5
        /\ GetComboMultiplier(game.combo) = 15
        /\ obs.lastKill.points = 150

\* The 5th kill of such a run
C9_Witness ==
    /\ obs.streakLt = 5
    /\ obs.lastKill.set
    /\ obs.lastKill.kind = "basic"

\* Count of the groups of kind t in a wave pattern
RECURSIVE CountOf(_, _, _)
CountOf(pattern, t, i) ==
    IF i > Len(pattern) THEN 0
    ELSE (IF pattern[i].type = t THEN pattern[i].count ELSE 0)
            + CountOf(pattern, t, i + 1)

WaveTarget(n) == WAVE_ENEMY_COUNT_BASE + WAVE_ENEMY_COUNT_INCREMENT * (n - 1)

C11_SpawnDelayDecreases ==
    /\ [](spawn.waveState = "spawning" =>
            /\ spawn.spawnDelay >= 400
            /\ spawn.currentWave >= 6 =>
                  spawn.spawnDelay = Max(400, 1000 - 50 * spawn.currentWave))
    /\ [][ (spawn.waveState = "spawning"
              /\ spawn'.currentWave = spawn.currentWave + 1) =>
             IF spawn.spawnDelay > 400
             THEN spawn'.spawnDelay < spawn.spawnDelay
             ELSE spawn'.spawnDelay = 400 ]_vars

\* The first procedural wave, reached from the last hand-authored one
C11_Witness ==
    /\ spawn.waveState = "spawning"
    /\ spawn.currentWave = 6
    /\ spawn.spawnDelay = 700

\* C12: EntityManager.update deactivates no enemy for its position: every
\* enemy active before the update is in the list after it; every active
\* bullet outside the bounds and the margin is inactive and out of the
\* bullet list after that update.
C12_EnemiesExemptFromBounds ==
    obs.lastUpdate.set =>
        /\ obs.lastUpdate.enemiesOut = obs.lastUpdate.enemiesIn
        /\ obs.lastUpdate.bulletsGone

\* An update with an enemy and a bullet both outside
C12_Witness ==
    /\ obs.lastUpdate.set
    /\ obs.lastUpdate.enemiesOff >= 1
    /\ obs.lastUpdate.bulletsOff >= 1
    /\ Len(enemies) >= 1

WaveStates == { "waiting", "spawning", "active", "complete" }

AllowedEdges ==
    { << "waiting", "spawning" >>, << "spawning", "active" >>,
      << "active", "complete" >>, << "complete", "spawning" >> }
      \cup { << s, "waiting" >> : s \in WaveStates }

\* C13: waveState changes only along waiting -> spawning, spawning ->
\* active (the spawn that empties the queue), active -> complete (no active
\* enemy), complete -> spawning (next wave) and reset to waiting.
C13_SpawnStateEdges ==
    /\ [](/\ spawn.waveState \in WaveStates
          /\ \A i \in 1..Len(obs.edges) : obs.edges[i] \in AllowedEdges)
    /\ [][ (gstate = "playing" /\ gstate' = "playing"
              /\ spawn'.waveState # spawn.waveState) =>
             /\ << spawn.waveState, spawn'.waveState >> \in AllowedEdges
             /\ spawn'.waveState = "active" =>
                   (Len(spawn.enemiesToSpawn) = 1
                      /\ Len(spawn'.enemiesToSpawn) = 0)
             /\ spawn'.waveState = "complete" => ActiveCount(enemies) = 0
             /\ spawn.waveState = "complete" =>
                   spawn'.currentWave = spawn.currentWave + 1 ]_vars

\* The second wave begun from the completed first
C13_Witness ==
    /\ obs.edges = << << "complete", "spawning" >> >>
    /\ spawn.currentWave = 2
    /\ spawn.waveState = "spawning"

C15_CleanupEndsFrame ==
    (pc = "idle" /\ fr.n > 0) =>
        /\ \A k \in 1..Len(enemies) : enemies[k].active
        /\ \A k \in 1..Len(bullets) : objs[bullets[k]].active
        /\ \A k \in 1..Len(powerups) : powerups[k].active
        /\ \A k \in 1..Len(inUse) : objs[inUse[k]].active


\* C16: an inactive entity takes part in no collision effect: a player bullet
\* that has hit an enemy and been deactivated damages no other enemy in that
\* frame (each bullet damages at most one enemy), and no damage is applied to
\* an enemy that is already inactive
C16_InactiveNeverCollides ==
    /\ \A i \in 1..Len(obs.shots) :
          /\ obs.shots[i].bulletActive
          /\ obs.shots[i].enemyActive
    /\ \A i, j \in 1..Len(obs.shots) :
          obs.shots[i].bullet = obs.shots[j].bullet => i = j


\* C17: after EntityManager.clearAll(), whatever the state before, the player
\* slot is null and the enemies, bullets, power-ups, explosions and floating
\* texts are all empty
C17_ClearAllEmptiesAll ==
    [][ClearAll => /\ player' = NoPlayer
                   /\ enemies' = << >>
                   /\ bullets' = << >>
                   /\ powerups' = << >>
                   /\ explosions' = << >>
                   /\ floatingTexts' = << >>]_vars

C20_NoNegativeState ==
    /\ player.health >= 0
    /\ \A k \in 1..Len(enemies) : enemies[k].health >= 0
    /\ game.comboTimer >= 0
    /\ game.buffTimers.rapidFire >= 0
    /\ game.buffTimers.shield >= 0
    /\ player.rapidFireTimer >= 0
    /\ player.shieldTimer >= 0
    /\ player.invincibleTimer >= 0

\* C21: a pause (playing -> paused) and a resume (paused -> playing) leave
\* the score, wave, combo and buffs, the player, the entity collections and
\* the spawn state machine as they were
C21_PauseResumeKeepsSession ==
    [][ ( \/ gstate = "playing" /\ gstate' = "paused"
          \/ gstate = "paused" /\ gstate' = "playing" )
        => UNCHANGED << player, enemies, bullets, powerups, game, spawn >>
      ]_vars

\* C22: when a frame processed while playing has ended, the state is
\* game_over exactly if the player's health is 0
C22_GameOverIffDead ==
    (pc = "idle" /\ gstate \in { "playing", "game_over" })
        => (gstate = "game_over" <=> player.health = 0)

\* A frame in which the player's health reached 0 has ended
C22_Witness ==
    /\ pc = "idle"
    /\ gstate = "game_over"
    /\ player.health = 0
    /\ fr.n > 0

\* C23: the player's weapon level is in 1..3; a TripleShot collection adds
\* exactly 1 below 3 and leaves 3 alone, no other collection changes it;
\* it goes down only in the step that starts a session (start from the
\* menu, restart after game over)
C23_WeaponLevelMonotone ==
    [][ /\ player'.weaponLevel \in 1..3
        /\ player'.weaponLevel < player.weaponLevel
              => (gstate \in { "menu", "game_over" } /\ gstate' = "playing")
        /\ \A i \in 1..Len(obs'.pickups) :
              obs'.pickups[i].levelAfter =
                  IF obs'.pickups[i].ptype = "triple_shot"
                  THEN Min(obs'.pickups[i].levelBefore + 1, 3)
                  ELSE obs'.pickups[i].levelBefore
      ]_vars

\* C24: the player's fire rate is half the base rate exactly while the
\* RapidFire buff is active, and the buff is active only with time left on
\* its countdown: the update that takes the countdown to 0 clears the flag
\* and restores the base rate
C24_FireRateFollowsRapidFire ==
    player.set =>
        /\ game.activeBuffs.rapidFire =>
              /\ player.fireRate * 2 = PLAYER_FIRE_RATE
              /\ game.buffTimers.rapidFire > 0
        /\ ~game.activeBuffs.rapidFire => player.fireRate = PLAYER_FIRE_RATE

\* The RapidFire buff has run out, 1000 ms past its end
C24_Witness ==
    /\ player.set
    /\ ~game.activeBuffs.rapidFire
    /\ game.buffTimers.rapidFire = -1000
    /\ player.fireRate = PLAYER_FIRE_RATE

\* C25: a RapidFire or Shield collection leaves that buff active with
\* exactly the full duration on its countdown, whatever was left before;
\* no countdown is ever above its full duration
C25_PickupRestartsCountdown ==
    /\ game.buffTimers.rapidFire <= RAPID_FIRE_DURATION
    /\ game.buffTimers.shield <= SHIELD_DURATION
    /\ \A i \in 1..Len(obs.pickups) :
          LET p == obs.pickups[i]
          IN  /\ p.ptype = "rapid_fire" =>
                    /\ p.buffsAfter.rapidFire
                    /\ p.timersAfter.rapidFire = RAPID_FIRE_DURATION
              /\ p.ptype = "shield" =>
                    /\ p.buffsAfter.shield
                    /\ p.timersAfter.shield = SHIELD_DURATION

\* A Shield is collected with 13000 ms of the shield before left
C25_Witness ==
    \E i \in 1..Len(obs.pickups) :
        /\ obs.pickups[i].ptype = "shield"
        /\ obs.pickups[i].buffsBefore.shield
        /\ obs.pickups[i].timersBefore.shield = 13000
        /\ obs.pickups[i].timersAfter.shield = SHIELD_DURATION

\* C26: a queue entry whose movement-pattern name is no known pattern is
\* spawned like any other: the spawnSystem.update that takes it creates an
\* enemy with the straight pattern and adds it, the entry leaves the queue,
\* and the state machine becomes active when that empties the queue; it is
\* in spawning only while entries are left
C26_UnknownPatternSpawnsStraight ==
    [][ /\ spawn'.waveState = "spawning" => Len(spawn'.enemiesToSpawn) > 0
        /\ \A k \in 1..Len(enemies') : enemies'[k].pattern \in PatternNames
        /\ ( /\ fr'.n # fr.n
             /\ obs'.lastSpawn.set
             /\ obs'.lastSpawn.patternName \notin PatternNames ) =>
              /\ obs'.lastSpawn.pattern = "straight"
              /\ Len(enemies') = Len(enemies) + 1
              /\ enemies'[Len(enemies')].pattern = "straight"
              /\ Len(spawn'.enemiesToSpawn) = Len(spawn.enemiesToSpawn) - 1
              /\ Len(spawn'.enemiesToSpawn) = 0 => spawn'.waveState = "active"
      ]_vars

\* The last entry of the queue had an unknown name; the wave is active
C26_Witness ==
    /\ obs.lastSpawn.set
    /\ obs.lastSpawn.patternName \in UnknownPatterns
    /\ obs.lastSpawn.left = 0
    /\ spawn.waveState = "active"
    /\ enemies[Len(enemies)].pattern = "straight"

\* C27: the zigzag pattern is time-based: two enemies whose pattern has been
\* called for the same total time, however split into frame times, have
\* the same direction and the same time on the switch timer
C27_ZigzagDependsOnTotalTime ==
    \A i, j \in 1..Len(enemies) :
        ( /\ enemies[i].pattern = "zigzag"
          /\ enemies[j].pattern = "zigzag"
          /\ enemies[i].patternCalls > 0
          /\ enemies[j].patternCalls > 0
          /\ enemies[i].patternTime = enemies[j].patternTime ) =>
            /\ enemies[i].zigzagDirection = enemies[j].zigzagDirection
            /\ enemies[i].zigzagTimer = enemies[j].zigzagTimer

\* C28: every enemy the spawn system creates has the score value of its
\* kind: Basic 100, Fast 150, Zigzag 200, Tank 300
C28_ScoreValueByKind ==
    \A k \in 1..Len(enemies) :
        enemies[k].scoreValue =
            CASE enemies[k].kind = "basic"  -> 100
              [] enemies[k].kind = "fast"   -> 150
              [] enemies[k].kind = "zigzag" -> 200
              [] enemies[k].kind = "tank"   -> 300
              [] OTHER -> enemies[k].scoreValue

\* C29: while the Shield buff is active no step takes health from the
\* player, whatever collides with the player
C29_ShieldKeepsHealth ==
    [][ game.activeBuffs.shield => player'.health >= player.health ]_vars

\* C30: the spawn state machine enters complete, and the wave-complete
\* notification of wave n is emitted, only in a step that starts in the
\* active state of wave n with the spawn queue empty and no active enemy;
\* while entries are queued or enemies are active no wave is declared
\* complete
C30_CompleteOnlyWhenDone ==
    [][ ( \/ spawn'.waveState = "complete" /\ spawn.waveState # "complete"
          \/ /\ obs'.notes # obs.notes
             /\ obs'.notes[Len(obs'.notes)][1] = "complete" ) =>
            /\ spawn.waveState = "active"
            /\ spawn'.waveState = "complete"
            /\ spawn'.currentWave = spawn.currentWave
            /\ Len(spawn.enemiesToSpawn) = 0
            /\ Len(spawn'.enemiesToSpawn) = 0
            /\ ActiveCount(enemies) = 0
            /\ ActiveCount(enemies') = 0
            /\ obs'.notes = Append(obs.notes,
                                   << "complete", spawn.currentWave >>)
      ]_vars

\* Wave 1 has been declared complete
C30_Witness ==
    /\ spawn.waveState = "complete"
    /\ spawn.currentWave = 1
    /\ Len(spawn.enemiesToSpawn) = 0
    /\ ActiveCount(enemies) = 0
    /\ obs.notes = << << "start", 1 >>, << "complete", 1 >> >>
    /\ obs.edges = << << "active", "complete" >> >>

\* C31: a call of SpawnSystem.update adds at most one enemy, and adds one
\* only in the spawning state with the time accumulated since the last spawn
\* (or the start of the wave) at least the spawn delay; the enemies spawned
\* in the wave plus the queue length is the sum of the descriptor's counts;
\* the state becomes active in the update that spawns the last queued enemy.
C31_OneSpawnPerDelay ==
    [][ /\ spawn'.spawned + Len(spawn'.enemiesToSpawn)
            = GetTotalEnemyCount(spawn')
        /\ fr'.n # fr.n =>
              /\ Len(enemies') <= Len(enemies) + 1
              /\ spawn'.spawned <= spawn.spawned + 1
              /\ obs'.lastSpawn.set <=> Len(enemies') = Len(enemies) + 1
              /\ obs'.lastSpawn.set =>
                    /\ spawn.waveState = "spawning"
                    /\ spawn'.spawned = spawn.spawned + 1
                    /\ spawn.spawnTimer + fr'.dt >= spawn.spawnDelay
              /\ (spawn.waveState = "spawning" /\ spawn'.waveState = "active")
                    <=> (obs'.lastSpawn.set /\ Len(spawn'.enemiesToSpawn) = 0)
      ]_vars

\* The sixth and last enemy of wave 1 spawned by a call of 400 ms, the
\* third since the spawn before it
C31_Witness ==
    /\ obs.lastSpawn.set
    /\ spawn.waveState = "active"
    /\ spawn.currentWave = 1
    /\ spawn.spawned = 6
    /\ Len(spawn.enemiesToSpawn) = 0
    /\ fr.dt = 400

\* C32: the wave number is at least 1 and equals the spawn system's current
\* wave; except in the step that starts a session (start from the menu,
\* restart after game over) it never decreases, it changes only when the
\* spawn state machine leaves complete, then by exactly 1, and complete is
\* left only with at least the clear delay accumulated in it.
C32_WaveAdvancesByOne ==
    [][ /\ game'.wave = spawn'.currentWave
        /\ game'.wave >= 1
        /\ ~(gstate \in { "menu", "game_over" } /\ gstate' = "playing") =>
              /\ game'.wave >= game.wave
              /\ game'.wave # game.wave => spawn.waveState = "complete"
              /\ (spawn.waveState = "complete" /\ spawn'.waveState # "complete")
                    => /\ game'.wave = game.wave + 1
                       /\ spawn.waveCompleteTimer + fr'.dt >= WAVE_CLEAR_DELAY
      ]_vars

\* C33: when a frame has ended, a combo above 0 has a countdown above 0, and
\* once the session has had a kill the combo is 0 exactly if the frame time
\* from the latest enemy-destroyed event's frame (included) on has reached
\* COMBO_TIMEOUT.
C33_ComboExpiresAtTimeout ==
    (pc = "idle" /\ fr.n > 0) =>
        /\ game.combo > 0 => game.comboTimer > 0
        /\ obs.killed =>
              (game.combo = 0 <=> obs.comboAge >= COMBO_TIMEOUT)

\* A combo that ran out in the second of two frames of 1000 ms
C33_Witness ==
    /\ pc = "idle"
    /\ gstate = "playing"
    /\ obs.killed
    /\ game.combo = 0
    /\ game.comboTimer = 0
    /\ obs.comboAge = COMBO_TIMEOUT
    /\ fr.dt = 1000

\* C34: a call of GameState.transition returns true exactly for the seven
\* edges menu -> playing, playing -> paused, playing -> game over, paused ->
\* playing, paused -> menu, game over -> menu and game over -> playing; a
\* call that returns false leaves current and previous as they were and
\* calls no listener; a call that returns true makes the request the
\* current state and the old state the previous one, and calls the exit
\* listeners of the old state, all of them, before the enter listeners of
\* the new state.
C34_TransitionTable ==
    LET t == obs.machine.last
        nExit == obs.machine.exit[t.from]
    IN  t.set =>
          /\ t.result <=>
               << t.from, t.request >> \in
                  { << "menu", "playing" >>, << "playing", "paused" >>,
                    << "playing", "game_over" >>, << "paused", "playing" >>,
                    << "paused", "menu" >>, << "game_over", "menu" >>,
                    << "game_over", "playing" >> }
          /\ ~t.result =>
               /\ gstate = t.from
               /\ obs.machine.previous = t.previousBefore
               /\ t.calls = << >>
          /\ t.result =>
               /\ gstate = t.request
               /\ obs.machine.previous = t.from
               /\ Len(t.calls) = nExit + obs.machine.enter[t.request]
               /\ \A i \in 1..Len(t.calls) :
                    t.calls[i] = IF i <= nExit
                                 THEN << "exit", t.from, i >>
                                 ELSE << "enter", t.request, i - nExit >>

\* A pause with an exit listener on playing and an enter listener on paused
C34_Witness ==
    /\ obs.machine.last.set
    /\ obs.machine.last.result
    /\ obs.machine.last.from = "playing"
    /\ gstate = "paused"
    /\ obs.machine.last.calls
         = << << "exit", "playing", 1 >>, << "enter", "paused", 1 >> >>

\* C35: when a frame processed while playing has ended, the session's lives
\* counter equals the player's health.
C35_LivesEqualHealth ==
    (pc = "idle" /\ gstate \in { "playing", "game_over" } /\ player.set)
        => game.lives = player.health

\* C36: after every operation of the EntityManager the bullet list and the
\* pool's in-use list hold the same instances, each once; no bullet of the
\* list is in the pool's free list; with the bullet list empty (after
\* clearBullets or clearAll) the pool has no instance in use.
C36_BulletsAreInUse ==
    /\ Range(bullets) = Range(inUse)
    /\ Len(bullets) = Len(inUse)
    /\ NoDup(bullets)
    /\ Range(bullets) \cap Range(available) = {}
    /\ bullets = << >> => inUse = << >>

\* After clearAll() with two bullets in the list: both are back in the free
\* list, in the order of their release
C36_Witness ==
    /\ gstate = "playing"
    /\ ~player.set
    /\ bullets = << >>
    /\ inUse = << >>
    /\ Len(available) = BULLET_POOL_SIZE
    /\ available[BULLET_POOL_SIZE] = BULLET_POOL_SIZE - 1

\* The instances that are ever taken from the pool with at most MaxFlight
\* bullets in the list: the last MaxFlight of the free list
FlightIds == (BULLET_POOL_SIZE - MaxFlight + 1)..BULLET_POOL_SIZE

\* C37: as long as frames are processed, every bullet of the bullet list is
\* eventually inactive, out of the list and in the pool's free list.
C37_BulletsAreRecycled ==
    /\ [](Range(bullets) \subseteq FlightIds)
    /\ \A b \in FlightIds :
          (b \in Range(bullets))
              ~> (/\ b \notin Range(bullets)
                  /\ b \in Range(available)
                  /\ ~objs[b].active)

\* A bullet that flew out of the top of the screen, back in the free list
C37_Witness ==
    /\ gstate = "playing"
    /\ \E b \in Range(available) :
          /\ ~objs[b].active
          /\ objs[b].velocityY = -BULLET_SPEED
          /\ objs[b].y + BULLET_HEIGHT < -OFFSCREEN_MARGIN
          /\ b \notin Range(bullets)

\* C38: an enemy spawned in wave w has the speed of the kind its descriptor
\* names (Basic 100, Fast 150, Tank 70, Zigzag 100, Boss 50) multiplied by
\* 1 + 0.10 (w - 1).
C38_SpeedByKindAndWave ==
    obs.lastSpawn.set =>
        10 * obs.lastSpawn.speed =
            (CASE obs.lastSpawn.type = "basic"  -> 100
               [] obs.lastSpawn.type = "fast"   -> 150
               [] obs.lastSpawn.type = "tank"   -> 70
               [] obs.lastSpawn.type = "zigzag" -> 100
               [] obs.lastSpawn.type = "boss"   -> 50
               [] OTHER -> 0)
            * (10 + (obs.lastSpawn.wave - 1))

\* Calls of saveHighScore so far with a score above v
RECURSIVE SubmittedAbove(_, _)
SubmittedAbove(v, values) ==
    IF values = {} THEN 0
    ELSE LET u == CHOOSE x \in values : TRUE
         IN  (IF u > v THEN obs.submitted[u] ELSE 0)
             + SubmittedAbove(v, values \ { u })

\* C39: after any sequence of saveHighScore calls the stored list has at most
\* 10 entries, is sorted in descending order of score, and holds the 10
\* highest scores submitted so far (all of them when fewer than 10 were
\* submitted): of each score v it holds as many entries as were submitted,
\* up to the places left by the submissions above v.
C39_TopTenStored ==
    LET list == LoadHighScores(storage)
    IN  /\ Len(list) <= 10
        /\ \A k \in 1..(Len(list) - 1) : list[k].score >= list[k + 1].score
        /\ \A v \in ScoreValues :
              Cardinality({ k \in 1..Len(list) : list[k].score = v })
                  = Min(obs.submitted[v],
                        Max(0, 10 - SubmittedAbove(v, ScoreValues)))

\* More than 10 scores were submitted and a later, higher score has pushed
\* a lower one out of a full list
C39_Witness ==
    /\ Len(storage) = 10
    /\ obs.submitted[100] = 3
    /\ obs.submitted[250] = 6
    /\ obs.submitted[300] = 2
    /\ Cardinality({ k \in 1..10 : LoadHighScores(storage)[k].score = 100 }) = 2

\* C40: wave size never shrinks as waves advance: the number of enemies
\* composed for wave n+1 is at least the number composed for wave n, for
\* every n >= 1, the step from wave 5 to wave 6 included.
C40_WaveSizeNeverShrinks ==
    [][(/\ spawn.waveState = "spawning"
        /\ spawn'.waveState = "spawning"
        /\ spawn'.currentWave = spawn.currentWave + 1
        /\ spawn.spawned = 0)
          => Len(spawn'.enemiesToSpawn) >= Len(spawn.enemiesToSpawn)]_vars
====
